---- MODULE Spec2Model ----
(***************************************************************************)
(* jjkk: the key-event state machine of App (src/src/app.rs) and the       *)
(* transactional operations of Native (src/src/jj/native_operations.rs).   *)
(*                                                                         *)
(* Text is a sequence of one-character strings.  The repository is the     *)
(* operation log of the store: every committed transaction is one          *)
(* operation carrying the view it produced.                                *)
(***************************************************************************)
EXTENDS Integers, Sequences, FiniteSets, TLC

(***************************************************************************)
(* Bounds of the model.                                                    *)
(***************************************************************************)
\* committed transactions per run (the operation log is capped here)
MaxOps == 2
\* characters in an edited buffer
MaxLen == 1

VARIABLES
    \* ---- the store on disk
    store,          \* commit objects, indexed by commit id
    opLog,          \* operations: [parent, view, desc]
    opHeads,        \* ids of the operations no other operation follows
    \* ---- Native
    native,         \* [repo, origin_names, default_remote]
    \* ---- App
    app,            \* the fields of App
    running,        \* run_app is in its loop
    \* ---- observation of the last step
    ev              \* [key, calls, refresh, status, ret]

vars == <<store, opLog, opHeads, native, app, running, ev>>

(***************************************************************************)
(* Text helpers.                                                           *)
(***************************************************************************)
Whitespace == {" ", "\n", "\t"}

RECURSIVE TrimStart(_)
TrimStart(s) ==
    IF s = <<>> THEN <<>>
    ELSE IF Head(s) \in Whitespace THEN TrimStart(Tail(s)) ELSE s

RECURSIVE TrimEnd(_)
TrimEnd(s) ==
    IF s = <<>> THEN <<>>
    ELSE IF s[Len(s)] \in Whitespace THEN TrimEnd(SubSeq(s, 1, Len(s) - 1)) ELSE s

\* str::trim
Trim(s) == TrimEnd(TrimStart(s))

Min(a, b) == IF a < b THEN a ELSE b

(***************************************************************************)
(* The repository.                                                         *)
(*   commit  [change, desc, parents, tree]   tree 0 is the empty tree      *)
(*   view    [wc, visible, remote, tracked, localb]                        *)
(*   ref targets: 0 absent, 1 an ancestor of 2 and of 3, 2 and 3 diverged, *)
(*   Conflicted a conflicted target                                        *)
(***************************************************************************)
NoCommit == 0
EmptyTree == 0
Absent == 0
Conflicted == 9
main == <<"m", "a", "i", "n">>
dev == <<"d", "e", "v">>
BookmarkNames == {main, dev}
RemoteNames == {"origin", "upstream"}
Symbols == BookmarkNames \X RemoteNames

Ok(out, r) == [ok |-> TRUE, out |-> out] @@ r
Err(out, r) == [ok |-> FALSE, out |-> out] @@ r

\* what a call leaves on disk when it commits nothing
Untouched(opened, wc) ==
    [tx |-> opened, wc |-> wc, store |-> store, opLog |-> opLog, opHeads |-> opHeads]

\* ReadonlyRepo::start_transaction on the snapshot Native holds
StartTransaction ==
    [view |-> opLog[native.repo].view, store |-> store, rewrites |-> {}]

\* rewrite_commit(c).set_description(d).write()
RewriteCommit(tx, id, desc) ==
    LET n == Len(tx.store) + 1
    IN  [tx EXCEPT !.store = Append(@, [tx.store[id] EXCEPT !.desc = desc]),
                   !.view.visible = @ \cup {n},
                   !.rewrites = @ \cup {<<id, n>>}]

\* new_commit(parents, tree).write()
NewCommit(tx, parents, tree) ==
    LET n == Len(tx.store) + 1
    IN  [tx EXCEPT !.store = Append(@, [change |-> n, desc |-> <<>>,
                                        parents |-> parents, tree |-> tree]),
                   !.view.visible = @ \cup {n}]

\* set_wc_commit(workspace, id)
SetWcCommit(tx, id) == [tx EXCEPT !.view.wc = id]

Rewritten(tx) == {p[1] : p \in tx.rewrites}
NewIdOf(tx, id) ==
    IF id \in Rewritten(tx) THEN (CHOOSE p \in tx.rewrites : p[1] = id)[2] ELSE id

\* rebase_descendants(): every visible commit built on a rewritten commit is
\* rewritten onto the new parents; then the working-copy marker follows the
\* rewrite and the rewritten commits leave the view
RECURSIVE RebaseDescendants(_)
RebaseDescendants(tx) ==
    LET old == Rewritten(tx)
        todo == {c \in tx.view.visible \ old :
                    tx.store[c].parents \cap old # {}}
    IN  IF todo # {}
        THEN LET c == CHOOSE x \in todo : \A y \in todo : x <= y
                 n == Len(tx.store) + 1
                 moved == [tx.store[c] EXCEPT
                              !.parents = {NewIdOf(tx, p) : p \in @}]
             IN  RebaseDescendants(
                     [tx EXCEPT !.store = Append(@, moved),
                                !.view.visible = @ \cup {n},
                                !.rewrites = @ \cup {<<c, n>>}])
        ELSE [tx EXCEPT !.view.wc = NewIdOf(tx, @),
                        !.view.visible = @ \ old,
                        !.rewrites = {}]

\* Transaction::commit(description): one new operation on top of the
\* operation the transaction was started from
TxCommit(tx, opened, wc, description) ==
    [tx |-> opened, wc |-> wc,
     store |-> tx.store,
     opLog |-> Append(opLog, [parent |-> native.repo, view |-> tx.view,
                              desc |-> description]),
     opHeads |-> (opHeads \ {native.repo}) \cup {Len(opLog) + 1}]

\* merge of ref targets (merge_ref_targets): a side equal to the base gives the
\* other side, equal sides agree, an ancestor gives way to its descendant,
\* anything else is a conflict
IsAncestor(a, b) == a = 1 /\ b \in {2, 3}
MergeRef(local, base, new) ==
    IF new = base \/ local = new THEN local
    ELSE IF local = base THEN new
    ELSE IF IsAncestor(local, new) THEN new
    ELSE IF IsAncestor(new, local) THEN local
    ELSE Conflicted

\* Option<&str>: <<>> is None, <<x>> is Some(x)
None == <<>>
Some(x) == <<x>>

\* remote.map_or_else(|| self.default_remote.clone(), to_owned)
RemoteOr(remote) == IF remote = None THEN native.default_remote ELSE remote[1]

\* describe with the validation applied to the untrimmed message
describe_untrimmed(message, fail) ==
    IF message = <<>>
    THEN Err(<<"Description message cannot be empty">>, Untouched(FALSE, NoCommit))
    ELSE
    LET tx0 == StartTransaction
        wc == tx0.view.wc
    IN  IF wc = NoCommit
        THEN Err(<<"No working copy commit found">>, Untouched(TRUE, NoCommit))
        ELSE IF fail # "none"
        THEN Err(<<fail>>, Untouched(TRUE, wc))
        ELSE Ok(<<"Working copy commit description updated to: ">> \o message,
                TxCommit(RebaseDescendants(RewriteCommit(tx0, wc, message)),
                         TRUE, wc, <<"describe working copy">>))

\* commit that publishes each step as it is made instead of at the end
commit_stepwise(message, fail) ==
    IF Trim(message) = <<>>
    THEN Err(<<"Commit message cannot be empty">>, Untouched(FALSE, NoCommit))
    ELSE
    LET tx0 == StartTransaction
        wc == tx0.view.wc
    IN  IF wc = NoCommit
        THEN Err(<<"No working copy commit found">>, Untouched(TRUE, NoCommit))
        ELSE IF fail \in {"get_commit", "write"}
        THEN Err(<<fail>>, Untouched(TRUE, wc))
        ELSE
        LET tx1 == RewriteCommit(tx0, wc, message)
            tx2 == NewCommit(tx1, {Len(tx1.store)}, EmptyTree)
            tx3 == SetWcCommit(tx2, Len(tx2.store))
        IN  IF fail = "new_commit"
            THEN Err(<<fail>>, Untouched(TRUE, wc))
            ELSE IF fail \in {"rebase_descendants", "commit"}
            THEN Err(<<fail>>, TxCommit(tx3, TRUE, wc, <<"commit working copy">>))
            ELSE Ok(<<"Created commit ", ToString(Len(tx1.store)),
                      " with description: ">> \o message,
                    TxCommit(RebaseDescendants(tx3), TRUE, wc,
                             <<"commit working copy">>))

\* describe with the transaction committed straight after the rewrite: the
\* commits built on the working-copy commit are left where they were
describe_no_rebase(message, fail) ==
    IF Trim(message) = <<>>
    THEN Err(<<"Description message cannot be empty">>, Untouched(FALSE, NoCommit))
    ELSE
    LET tx0 == StartTransaction
        wc == tx0.view.wc
    IN  IF wc = NoCommit
        THEN Err(<<"No working copy commit found">>, Untouched(TRUE, NoCommit))
        ELSE IF fail \in {"get_commit", "write", "rebase_descendants", "commit"}
        THEN Err(<<fail>>, Untouched(TRUE, wc))
        ELSE Ok(<<"Working copy commit description updated to: ">> \o message,
                TxCommit(RewriteCommit(tx0, wc, message), TRUE, wc,
                         <<"describe working copy">>))

(***************************************************************************)
(* Native::describe.  fail names the fallible step the environment makes   *)
(* fail ("none": no step fails).                                           *)
(***************************************************************************)
describe(message, fail) ==
    IF Trim(message) = <<>>
    THEN Err(<<"Description message cannot be empty">>, Untouched(FALSE, NoCommit))
    ELSE
    LET tx0 == StartTransaction
        wc == tx0.view.wc
    IN  IF wc = NoCommit
        THEN Err(<<"No working copy commit found">>, Untouched(TRUE, NoCommit))
        ELSE IF fail \in {"get_commit", "write"}
        THEN Err(<<fail>>, Untouched(TRUE, wc))
        ELSE
        LET tx1 == RewriteCommit(tx0, wc, message)
        IN  IF fail = "rebase_descendants"
            THEN Err(<<fail>>, Untouched(TRUE, wc))
            ELSE
            LET tx2 == RebaseDescendants(tx1)
            IN  IF fail = "commit"
                THEN Err(<<fail>>, Untouched(TRUE, wc))
                ELSE Ok(<<"Working copy commit description updated to: ">> \o message,
                        TxCommit(tx2, TRUE, wc, <<"describe working copy">>))

(***************************************************************************)
(* Native::commit                                                          *)
(***************************************************************************)
commit(message, fail) ==
    IF Trim(message) = <<>>
    THEN Err(<<"Commit message cannot be empty">>, Untouched(FALSE, NoCommit))
    ELSE
    LET tx0 == StartTransaction
        wc == tx0.view.wc
    IN  IF wc = NoCommit
        THEN Err(<<"No working copy commit found">>, Untouched(TRUE, NoCommit))
        ELSE IF fail \in {"get_commit", "write"}
        THEN Err(<<fail>>, Untouched(TRUE, wc))
        ELSE
        LET tx1 == RewriteCommit(tx0, wc, message)
            committed == Len(tx1.store)
        IN  IF fail = "new_commit"
            THEN Err(<<fail>>, Untouched(TRUE, wc))
            ELSE
            LET tx2 == NewCommit(tx1, {committed}, EmptyTree)
                new_wc == Len(tx2.store)
            IN  IF fail = "set_wc_commit"
                THEN Err(<<fail>>, Untouched(TRUE, wc))
                ELSE
                LET tx3 == SetWcCommit(tx2, new_wc)
                IN  IF fail = "rebase_descendants"
                    THEN Err(<<fail>>, Untouched(TRUE, wc))
                    ELSE
                    LET tx4 == RebaseDescendants(tx3)
                    IN  IF fail = "commit"
                        THEN Err(<<fail>>, Untouched(TRUE, wc))
                        ELSE Ok(<<"Created commit ", ToString(committed),
                                  " with description: ">> \o message,
                                TxCommit(tx4, TRUE, wc, <<"commit working copy">>))

(***************************************************************************)
(* Native::git_fetch.  fetched is what the remote serves: a target for     *)
(* every bookmark name.                                                    *)
(***************************************************************************)
ImportRefs(tx, remote, fetched) ==
    [tx EXCEPT
        !.view.remote = [s \in Symbols |->
            IF s[2] = remote THEN fetched[s[1]] ELSE @[s]],
        !.view.tracked = {s \in @ : s[2] = remote => fetched[s[1]] # Absent},
        !.view.localb = [b \in BookmarkNames |->
            IF <<b, remote>> \in tx.view.tracked
            THEN MergeRef(@[b], tx.view.remote[<<b, remote>>], fetched[b])
            ELSE @[b]]]

ChangedRemoteBookmarks(tx, remote, fetched) ==
    {b \in BookmarkNames : tx.view.remote[<<b, remote>>] # fetched[b]}

git_fetch(remote, fail, fetched) ==
    LET name == RemoteOr(remote)
        tx0 == StartTransaction
        known == {native.origin_names[i] : i \in DOMAIN native.origin_names}
    IN  IF fail \in {"settings", "subprocess", "git_repo"}
        THEN Err(<<fail>>, Untouched(TRUE, NoCommit))
        ELSE IF name \notin known
        THEN Err(<<"No git remote named">>, Untouched(TRUE, NoCommit))
        ELSE IF fail \in {"refspecs", "new", "fetch", "import_refs"}
        THEN Err(<<fail>>, Untouched(TRUE, NoCommit))
        ELSE
        LET tx1 == ImportRefs(tx0, name, fetched)
            n == Cardinality(ChangedRemoteBookmarks(tx0, name, fetched))
        IN  IF fail = "commit"
            THEN Err(<<fail>>, Untouched(TRUE, NoCommit))
            ELSE Ok(<<"Fetched from origin\n", ToString(n),
                      " remote bookmarks imported">>,
                    TxCommit(tx1, TRUE, NoCommit, <<"fetch from git remote">>))

(***************************************************************************)
(* Native::track                                                           *)
(***************************************************************************)
\* a remote bookmark is recorded in the view only while its target is present
TrackRemoteBookmark(tx, symbol) ==
    [tx EXCEPT
        !.view.tracked = IF tx.view.remote[symbol] # Absent THEN @ \cup {symbol} ELSE @,
        !.view.localb[symbol[1]] = MergeRef(@, Absent, tx.view.remote[symbol])]

track(bookmark_name, remote, fail) ==
    LET name == RemoteOr(remote)
        tx0 == StartTransaction
        symbol == <<bookmark_name, name>>
    IN  IF symbol \in tx0.view.tracked
        THEN Ok(<<"Remote bookmark already tracked: ">> \o bookmark_name \o <<"@", name>>,
                Untouched(TRUE, NoCommit))
        ELSE IF fail = "track_remote_bookmark"
        THEN Err(<<fail>>, Untouched(TRUE, NoCommit))
        ELSE
        LET tx1 == TrackRemoteBookmark(tx0, symbol)
            has_conflict == tx1.view.localb[bookmark_name] = Conflicted
        IN  IF fail = "commit"
            THEN Err(<<fail>>, Untouched(TRUE, NoCommit))
            ELSE Ok(<<"Started tracking 1 remote bookmarks.">>
                        \o (IF has_conflict
                            THEN <<"\nWarning: Tracking created conflicts in local bookmark '">>
                                     \o bookmark_name \o <<"'">>
                            ELSE <<>>),
                    TxCommit(tx1, TRUE, NoCommit,
                             <<"track remote bookmark ">> \o bookmark_name \o <<"@", name>>))

(***************************************************************************)
(* What a loader of the store at its head sees (load_at_head, and every jj *)
(* command line run): the view of the single head operation, or the merge  *)
(* of the head operations when transactions were committed side by side.   *)
(***************************************************************************)
MergeView(self, base, other) ==
    [wc |-> IF other.wc = base.wc \/ other.wc = self.wc THEN self.wc
            ELSE IF self.wc = base.wc THEN other.wc
            ELSE self.wc,
     visible |-> (self.visible \ (base.visible \ other.visible))
                     \cup (other.visible \ base.visible),
     remote |-> [s \in Symbols |->
                    MergeRef(self.remote[s], base.remote[s], other.remote[s])],
     tracked |-> (self.tracked \ (base.tracked \ other.tracked))
                     \cup (other.tracked \ base.tracked),
     localb |-> [b \in BookmarkNames |->
                    MergeRef(self.localb[b], base.localb[b], other.localb[b])]]

RECURSIVE MergeHeads(_, _)
MergeHeads(view, heads) ==
    IF heads = {} THEN view
    ELSE LET h == CHOOSE x \in heads : \A y \in heads : x <= y
         IN  MergeHeads(MergeView(view, opLog[opLog[h].parent].view, opLog[h].view),
                        heads \ {h})

LiveView ==
    LET h == CHOOSE x \in opHeads : \A y \in opHeads : x <= y
    IN  MergeHeads(opLog[h].view, opHeads \ {h})

(***************************************************************************)
(* Construction.  The environment chooses the repository the program is    *)
(* started in.                                                             *)
(***************************************************************************)
InitCommits(tree, with_child) ==
    <<[change |-> 1, desc |-> <<"p">>, parents |-> {}, tree |-> 1],
      [change |-> 2, desc |-> <<>>, parents |-> {1}, tree |-> tree]>>
    \o (IF with_child
        THEN <<[change |-> 3, desc |-> <<"c">>, parents |-> {2}, tree |-> 1]>>
        ELSE <<>>)

InitView(commits, wc, refs) ==
    [wc |-> wc,
     visible |-> DOMAIN commits,
     remote |-> [s \in Symbols |-> IF s = <<main, "origin">> THEN refs[1] ELSE Absent],
     tracked |-> IF Len(refs) > 2 THEN {<<main, refs[3]>>} ELSE {},
     localb |-> [b \in BookmarkNames |-> IF b = main THEN refs[2] ELSE Absent]]

\* Native::new
NativeNew(remote_names) ==
    [repo |-> 1,
     origin_names |-> remote_names,
     default_remote |-> IF remote_names = <<>> THEN "origin" ELSE remote_names[1]]

\* a repository to start in: <<tree of the working-copy commit, whether it has
\* a child, the working-copy marker, <<main@origin, local main>> followed by the
\* remote whose main is tracked if there is one, the remotes>>
InitRepo(scenarios) ==
    \E sc \in scenarios :
        /\ store = InitCommits(sc[1], sc[2])
        /\ opLog = <<[parent |-> 0, view |-> InitView(store, sc[3], sc[4]),
                      desc |-> <<"initialize repo">>]>>
        /\ opHeads = {1}
        /\ native = NativeNew(sc[5])

\* what the last step did: the key handled and the popup it met, the calls made
\* that change the repository, the refreshes run, whether a status message was
\* set, how the handler returned, and the milliseconds the poll waited for the key
NoEvent ==
    [key |-> None, popup |-> [kind |-> "None"], calls |-> <<>>, refresh |-> <<>>,
     status |-> FALSE, ret |-> "ok", dt |-> 0]

\* one call of a Native method, as seen by the caller
Call(fn, arg, r, popup) ==
    [fn |-> fn, arg |-> arg, ok |-> r.ok, out |-> r.out, tx |-> r.tx, wc |-> r.wc,
     popup |-> popup]

\* the operation log holds the initial operation and at most MaxOps more
Fits(r) == Len(r.opLog) <= MaxOps + 1

Persist(r) ==
    /\ store' = r.store
    /\ opLog' = r.opLog
    /\ opHeads' = r.opHeads

(***************************************************************************)
(* App (src/src/app.rs).  Times are kept as ages in milliseconds: the time *)
(* elapsed since the Instant was taken.                                    *)
(***************************************************************************)
DEBOUNCE_MS == 50
STATUS_TTL_SECS == 2
MsPerSec == 1000
SpinnerFrameMs == 80
SpinnerFrames == 10

\* Tab::next
TabNext(t) ==
    CASE t = "WorkingCopy" -> "Bookmarks"
      [] t = "Bookmarks" -> "Log"
      [] t = "Log" -> "WorkingCopy"

\* Tab::prev
TabPrev(t) ==
    CASE t = "WorkingCopy" -> "Log"
      [] t = "Bookmarks" -> "WorkingCopy"
      [] t = "Log" -> "Bookmarks"

PopupNone == [kind |-> "None"]
PopupHelp == [kind |-> "Help"]
PopupError(message) == [kind |-> "Error", message |-> message]
PopupWarning(message) == [kind |-> "Warning", message |-> message]

\* TextArea::default(): one empty line, cursor (row, col) at (0, 0)
TextAreaDefault == [lines |-> << <<>> >>, row |-> 0, col |-> 0]

PopupInput(title, callback) ==
    [kind |-> "Input", title |-> title, textarea |-> TextAreaDefault,
     callback |-> callback]

PopupBookmarkSelect(bookmarks) ==
    [kind |-> "BookmarkSelect", content |-> <<>>, cursor_position |-> 0,
     available_bookmarks |-> bookmarks, selected_index |-> 0]

\* App::new
AppNew ==
    [current_tab |-> "WorkingCopy",
     previous_tab |-> "WorkingCopy",
     should_quit |-> FALSE,
     popup_state |-> PopupNone,
     status_message |-> None,
     status_message_timestamp |-> None,
     loading_message |-> None,
     loading_start |-> None,
     selected_file_index |-> 0,
     selected_bookmark_index |-> 0,
     selected_log_index |-> 0,
     diff_scroll_offset |-> 0,
     files |-> <<>>,
     current_diff |-> None,
     needs_redraw |-> TRUE,
     bookmarks |-> <<>>,
     log_commits |-> <<>>,
     last_key_event |-> None]

(***************************************************************************)
(* A key event is handled on a context cx: the App being changed, the      *)
(* store as the handler leaves it, what the handler has done so far, ret,  *)
(* "ok" or "err" once a `?` has returned an error, and world, the outcomes *)
(* the environment may give to the calls the handler makes.                *)
(***************************************************************************)
Context(a, key, world) ==
    [app |-> a, world |-> world,
     disk |-> [store |-> store, opLog |-> opLog, opHeads |-> opHeads],
     key |-> key, calls |-> <<>>, refresh |-> <<>>, status |-> FALSE,
     ret |-> "ok", overflow |-> FALSE]

\* usize::saturating_sub
SaturatingSub(a, b) == IF a > b THEN a - b ELSE 0

\* App::set_status_message
set_status_message(cx, message) ==
    [cx EXCEPT !.app.status_message = Some(message),
               !.app.status_message_timestamp = Some(0),
               !.app.needs_redraw = TRUE,
               !.status = TRUE]

\* App::clear_status_message
clear_status_message(a) ==
    [a EXCEPT !.status_message = None,
              !.status_message_timestamp = None,
              !.needs_redraw = TRUE]

\* update_status_message_timeout comparing with > instead of >=
update_status_message_timeout_after(a) ==
    IF a.status_message_timestamp # None
       /\ a.status_message_timestamp[1] \div MsPerSec > STATUS_TTL_SECS
    THEN clear_status_message(a)
    ELSE a

\* App::update_status_message_timeout
update_status_message_timeout(a) ==
    IF a.status_message_timestamp # None
       /\ a.status_message_timestamp[1] \div MsPerSec >= STATUS_TTL_SECS
    THEN clear_status_message(a)
    ELSE a

\* App::show_error
show_error(cx, message) == [cx EXCEPT !.app.popup_state = PopupError(message)]

\* App::show_warning
show_warning(cx, message) == [cx EXCEPT !.app.popup_state = PopupWarning(message)]

\* App::show_loading
show_loading(cx, message) ==
    [cx EXCEPT !.app.loading_message = Some(message),
               !.app.loading_start = Some(0),
               !.app.needs_redraw = TRUE]

\* App::clear_loading
clear_loading(cx) ==
    [cx EXCEPT !.app.loading_message = None,
               !.app.loading_start = None,
               !.app.needs_redraw = TRUE]

\* get_spinner_char with frames of 100 ms
get_spinner_char_slow(a) ==
    IF a.loading_start = None THEN None
    ELSE Some((a.loading_start[1] \div 100) % SpinnerFrames)

\* App::get_spinner_char: the index of the frame shown, or <<>> for the blank
get_spinner_char(a) ==
    IF a.loading_start = None THEN None
    ELSE Some((a.loading_start[1] \div SpinnerFrameMs) % SpinnerFrames)

\* App::update_diff; diff_ok: get_file_diff succeeds
update_diff(cx, diff_ok) ==
    IF cx.app.selected_file_index < Len(cx.app.files)
    THEN IF diff_ok
         THEN [cx EXCEPT !.app.current_diff =
                             Some(cx.app.files[cx.app.selected_file_index + 1].path)]
         ELSE [cx EXCEPT !.ret = "err"]
    ELSE [cx EXCEPT !.app.current_diff = None]

\* App::refresh_status; env.status: <<>> when get_working_copy_status fails,
\* <<files>> when it succeeds
refresh_status(cx, env) ==
    LET c0 == [cx EXCEPT !.refresh = Append(@, "refresh_status")]
    IN  IF env.status = None THEN [c0 EXCEPT !.ret = "err"]
        ELSE
        LET c1 == [c0 EXCEPT
                     !.app.files = env.status[1],
                     !.app.selected_file_index =
                         Min(@, SaturatingSub(Len(env.status[1]), 1)),
                     !.app.diff_scroll_offset = 0]
            c2 == update_diff(c1, env.diff)
        IN  IF c2.ret = "err" THEN c2
            ELSE [c2 EXCEPT !.app.needs_redraw = TRUE]

\* refresh_bookmarks without the clamp of the selection
refresh_bookmarks_unclamped(cx, env) ==
    LET c0 == [cx EXCEPT !.refresh = Append(@, "refresh_bookmarks")]
    IN  IF env.bookmarks = None THEN c0
        ELSE [c0 EXCEPT
                 !.app.bookmarks = env.bookmarks[1],
                 !.app.needs_redraw = TRUE]

\* App::refresh_bookmarks
refresh_bookmarks(cx, env) ==
    LET c0 == [cx EXCEPT !.refresh = Append(@, "refresh_bookmarks")]
    IN  IF env.bookmarks = None THEN c0
        ELSE [c0 EXCEPT
                 !.app.bookmarks = env.bookmarks[1],
                 !.app.selected_bookmark_index =
                     Min(@, SaturatingSub(Len(env.bookmarks[1]), 1)),
                 !.app.needs_redraw = TRUE]

\* App::refresh_log
refresh_log(cx, env) ==
    LET c0 == [cx EXCEPT !.refresh = Append(@, "refresh_log")]
    IN  IF env.log = None THEN c0
        ELSE [c0 EXCEPT
                 !.app.log_commits = env.log[1],
                 !.app.selected_log_index =
                     Min(@, SaturatingSub(Len(env.log[1]), 1)),
                 !.app.needs_redraw = TRUE]

\* refresh_all going on to the bookmarks and the log when refresh_status failed
refresh_all_lenient(cx, env) ==
    LET c0 == [cx EXCEPT !.refresh = Append(@, "refresh_all")]
        c1 == refresh_status(c0, env)
    IN  refresh_log(refresh_bookmarks([c1 EXCEPT !.ret = "ok"], env), env)

\* App::refresh_all
refresh_all(cx, env) ==
    LET c0 == [cx EXCEPT !.refresh = Append(@, "refresh_all")]
        c1 == refresh_status(c0, env)
    IN  IF c1.ret = "err" THEN c1
        ELSE refresh_log(refresh_bookmarks(c1, env), env)

\* switch_to_tab refreshing the list of the tab on every call
switch_to_tab_always(cx, env, new_tab) ==
    LET c1 == [cx EXCEPT !.app.previous_tab = cx.app.current_tab,
                         !.app.current_tab = new_tab]
    IN  CASE new_tab = "Bookmarks" -> refresh_bookmarks(c1, env)
          [] new_tab = "Log" -> refresh_log(c1, env)
          [] new_tab = "WorkingCopy" -> c1

\* App::switch_to_tab
switch_to_tab(cx, env, new_tab) ==
    IF cx.app.current_tab # new_tab
    THEN LET c1 == [cx EXCEPT !.app.previous_tab = cx.app.current_tab,
                              !.app.current_tab = new_tab]
         IN  CASE new_tab = "Bookmarks" -> refresh_bookmarks(c1, env)
               [] new_tab = "Log" -> refresh_log(c1, env)
               [] new_tab = "WorkingCopy" -> c1
    ELSE cx

\* should_process_navigation_key comparing the time only, not the key code
should_process_navigation_key_any_code(cx, key_code) ==
    LET last == cx.app.last_key_event
    IN  IF last # None /\ last[1][2] < DEBOUNCE_MS
        THEN <<FALSE, cx>>
        ELSE <<TRUE, [cx EXCEPT !.app.last_key_event = Some(<<key_code, 0>>)]>>

\* App::should_process_navigation_key: <<accepted, cx>>
should_process_navigation_key(cx, key_code) ==
    LET last == cx.app.last_key_event
    IN  IF last # None /\ last[1][1] = key_code /\ last[1][2] < DEBOUNCE_MS
        THEN <<FALSE, cx>>
        ELSE <<TRUE, [cx EXCEPT !.app.last_key_event = Some(<<key_code, 0>>)]>>

(***************************************************************************)
(* Keys.  [code, ch, alt]: ch is the character of KeyCode::Char, alt the   *)
(* ALT modifier.                                                           *)
(***************************************************************************)
Key(code) == [code |-> code, ch |-> "", alt |-> FALSE]
Char(c) == [code |-> "Char", ch |-> c, alt |-> FALSE]
AltEnter == [code |-> "Enter", ch |-> "", alt |-> TRUE]
IsChar(key, c) == key.code = "Char" /\ key.ch = c

(***************************************************************************)
(* tui_textarea::TextArea, default key map.  The cursor is (row, col),     *)
(* both from 0.                                                            *)
(***************************************************************************)
TabLen == 4
\* lines a buffer may hold
MaxLines == 2

InsertAt(seq, i, c) == SubSeq(seq, 1, i) \o <<c>> \o SubSeq(seq, i + 1, Len(seq))
RemoveAt(seq, i) == SubSeq(seq, 1, i) \o SubSeq(seq, i + 2, Len(seq))

RECURSIVE TotalChars(_)
TotalChars(lines) ==
    IF lines = <<>> THEN 0 ELSE Len(Head(lines)) + TotalChars(Tail(lines))

RECURSIVE Spaces(_)
Spaces(n) == IF n = 0 THEN <<>> ELSE <<" ">> \o Spaces(n - 1)

CurLine(ta) == ta.lines[ta.row + 1]

\* TextArea::insert_char / insert_str on the current line
ta_insert(ta, piece) ==
    [ta EXCEPT !.lines[ta.row + 1] =
                   SubSeq(@, 1, ta.col) \o piece \o SubSeq(@, ta.col + 1, Len(@)),
               !.col = @ + Len(piece)]

\* TextArea::insert_newline
ta_insert_newline(ta) ==
    LET line == CurLine(ta)
    IN  [ta EXCEPT !.lines = SubSeq(@, 1, ta.row)
                        \o <<SubSeq(line, 1, ta.col), SubSeq(line, ta.col + 1, Len(line))>>
                        \o SubSeq(@, ta.row + 2, Len(@)),
                   !.row = @ + 1,
                   !.col = 0]

\* TextArea::delete_char (Backspace)
ta_delete_char(ta) ==
    IF ta.col > 0
    THEN [ta EXCEPT !.lines[ta.row + 1] = RemoveAt(@, ta.col - 1), !.col = @ - 1]
    ELSE IF ta.row > 0
    THEN [ta EXCEPT !.lines = SubSeq(@, 1, ta.row - 1)
                         \o <<ta.lines[ta.row] \o CurLine(ta)>>
                         \o SubSeq(@, ta.row + 2, Len(@)),
                    !.row = @ - 1,
                    !.col = Len(ta.lines[ta.row])]
    ELSE ta

\* TextArea::move_cursor
ta_move(ta, code) ==
    CASE code = "Left" ->
            IF ta.col > 0 THEN [ta EXCEPT !.col = @ - 1]
            ELSE IF ta.row > 0
            THEN [ta EXCEPT !.row = @ - 1, !.col = Len(ta.lines[ta.row])]
            ELSE ta
      [] code = "Right" ->
            IF ta.col < Len(CurLine(ta)) THEN [ta EXCEPT !.col = @ + 1]
            ELSE IF ta.row + 1 < Len(ta.lines) THEN [ta EXCEPT !.row = @ + 1, !.col = 0]
            ELSE ta
      [] code = "Up" ->
            IF ta.row > 0
            THEN [ta EXCEPT !.row = @ - 1, !.col = Min(ta.col, Len(ta.lines[ta.row]))]
            ELSE ta
      [] code = "Down" ->
            IF ta.row + 1 < Len(ta.lines)
            THEN [ta EXCEPT !.row = @ + 1, !.col = Min(ta.col, Len(ta.lines[ta.row + 2]))]
            ELSE ta
      [] code = "Home" -> [ta EXCEPT !.col = 0]
      [] code = "End" -> [ta EXCEPT !.col = Len(CurLine(ta))]

\* TextArea::input
ta_input(ta, key) ==
    CASE key.code = "Char" /\ ~key.alt -> ta_insert(ta, <<key.ch>>)
      [] key.code = "Enter" -> ta_insert_newline(ta)
      [] key.code = "Tab" -> ta_insert(ta, Spaces(TabLen - (ta.col % TabLen)))
      [] key.code = "Backspace" -> ta_delete_char(ta)
      [] key.code \in {"Left", "Right", "Up", "Down", "Home", "End"} ->
            ta_move(ta, key.code)
      [] OTHER -> ta

\* the buffer is within the bounds of the model
TextFits(ta) == TotalChars(ta.lines) <= MaxLen /\ Len(ta.lines) <= MaxLines

\* lines().join("\n")
RECURSIVE Join(_)
Join(lines) ==
    IF Len(lines) = 0 THEN <<>>
    ELSE IF Len(lines) = 1 THEN lines[1]
    ELSE lines[1] \o <<"\n">> \o Join(Tail(lines))

(***************************************************************************)
(* Strings of the BookmarkSelect popup: characters with their UTF-8 widths. *)
(***************************************************************************)
Utf8Len(c) == IF c = "é" THEN 2 ELSE 1

RECURSIVE ByteLen(_)
ByteLen(str) == IF str = <<>> THEN 0 ELSE Utf8Len(Head(str)) + ByteLen(Tail(str))

\* char_to_byte taking the character position for the byte position
char_to_byte_per_byte(str, char_pos) == Min(char_pos, ByteLen(str))

\* the closure char_to_byte of handle_key_event
char_to_byte(str, char_pos) ==
    IF char_pos < Len(str) THEN ByteLen(SubSeq(str, 1, char_pos)) ELSE ByteLen(str)

\* the character index that starts at byte_pos, or -1 when byte_pos is not a
\* character boundary of str
CharAt(str, byte_pos) ==
    LET at == {k \in 0..Len(str) : ByteLen(SubSeq(str, 1, k)) = byte_pos}
    IN  IF at = {} THEN -1 ELSE CHOOSE k \in at : TRUE

\* char::to_lowercase over the characters of the model
ToLower(c) ==
    CASE c = "M" -> "m"
      [] c = "D" -> "d"
      [] OTHER -> c
ToLowercase(str) == [i \in DOMAIN str |-> ToLower(str[i])]

\* str::contains
Contains(hay, needle) ==
    \E i \in 0..(Len(hay) - Len(needle)) :
        SubSeq(hay, i + 1, i + Len(needle)) = needle

RECURSIVE FilterByName(_, _)
FilterByName(seq, content) ==
    IF seq = <<>> THEN <<>>
    ELSE IF Contains(ToLowercase(Head(seq).name), ToLowercase(content))
         THEN <<Head(seq)>> \o FilterByName(Tail(seq), content)
         ELSE FilterByName(Tail(seq), content)

\* the filtered view comparing the names as they are written
Filtered_case_sensitive(available_bookmarks, content) ==
    IF content = <<>> THEN available_bookmarks
    ELSE SelectSeq(available_bookmarks, LAMBDA b : Contains(b.name, content))

\* the filtered view of the BookmarkSelect popup
Filtered(available_bookmarks, content) ==
    IF content = <<>> THEN available_bookmarks
    ELSE FilterByName(available_bookmarks, content)

(***************************************************************************)
(* The jj command line, run as a subprocess (src/src/jj/operations.rs,     *)
(* status.rs, log.rs): the environment chooses each outcome where the call *)
(* is made.                                                                *)
(***************************************************************************)
main2 == main \o <<"-", "2">>
FileLists ==
    {<<>>, <<[path |-> "f1", status |-> "Modified"]>>,
     <<[path |-> "f1", status |-> "Modified"], [path |-> "f2", status |-> "Added"]>>}
BookmarkLists ==
    {<<>>, <<[name |-> dev, is_current |-> TRUE], [name |-> main, is_current |-> FALSE]>>,
     <<[name |-> main, is_current |-> TRUE], [name |-> main2, is_current |-> FALSE],
             [name |-> dev, is_current |-> FALSE]>>}
LogLists ==
    {<<>>,
     <<[change_id |-> "k1", description |-> "one", author |-> "<a@b>"],
       [change_id |-> "k2", description |-> "two", author |-> "<a@b>"]>>}
Opt(S) == {None} \cup {Some(x) : x \in S}

\* what the queries of a refresh return: the working-copy status, whether the
\* diff of the selected file is produced, the bookmarks, the log
RefreshEnvs ==
    [status : Opt(FileLists), diff : BOOLEAN,
     bookmarks : Opt(BookmarkLists), log : Opt(LogLists)]

\* The outcomes of the environment:
\*   refresh     what the queries of a refresh return
\*   current     get_current_bookmark().ok().flatten()
\*   empty       is_working_copy_empty(), <<>> when it fails
\*   candidates  get_bookmarks() of the bookmark popup, <<>> when it fails
\*   cli         whether a jj command that changes the repository succeeds
\*   fails       the step of a Native call that fails ("none": no step)
\*   served      what the remote serves to a fetch
AnyWorld ==
    [refresh |-> RefreshEnvs,
     current |-> {None, Some(main)},
     empty |-> Opt(BOOLEAN),
     candidates |-> Opt(BookmarkLists),
     cli |-> BOOLEAN,
     fails |-> {"none", "commit"},
     served |-> {[b \in BookmarkNames |-> IF b = main THEN 3 ELSE Absent]}]

\* a call of a jj subprocess that changes the repository
CliCall(fn, arg, ok, popup) ==
    [fn |-> fn, arg |-> arg, ok |-> ok,
     out |-> IF ok THEN <<>> ELSE <<"jj ", fn, " failed">>,
     tx |-> FALSE, wc |-> NoCommit, popup |-> popup]

Called(cx, c) == [cx EXCEPT !.calls = Append(@, c)]

\* a Native call made by the handler: its result r is what the store becomes
NativeCalled(cx, fn, arg, r) ==
    [cx EXCEPT !.calls = Append(@, Call(fn, arg, r, cx.app.popup_state.kind)),
               !.disk = [store |-> r.store, opLog |-> r.opLog, opHeads |-> r.opHeads],
               !.overflow = @ \/ ~Fits(r)]

\* self.refresh_all()? in every outcome of its queries
RefreshAll(cx) == {refresh_all(cx, e) : e \in cx.world.refresh}

\* each of S continued by F unless it has returned an error
Then(S, F(_)) == UNION {IF c.ret = "ok" THEN F(c) ELSE {c} : c \in S}

\* App::execute_popup_callback
execute_popup_callback(cx, callback, text) ==
    CASE callback = "Describe" ->
            UNION {LET r == describe(text, f)
                       c1 == NativeCalled(cx, "describe", text, r)
                   IN  IF r.ok
                       THEN RefreshAll(set_status_message(c1, <<"Description updated">>))
                       ELSE {show_error(c1, <<"Failed to describe: ">> \o r.out)}
                   : f \in cx.world.fails}
      [] callback = "Commit" ->
            UNION {LET r == commit(text, f)
                       c1 == NativeCalled(cx, "commit", text, r)
                   IN  IF r.ok
                       THEN RefreshAll(set_status_message(c1, <<"Committed successfully">>))
                       ELSE {show_error(c1, <<"Failed to commit: ">> \o r.out)}
                   : f \in cx.world.fails}
      [] callback = "Rebase" ->
            LET dest == IF Trim(text) = <<>> THEN <<"@">> ELSE Trim(text)
            IN  UNION {LET c1 == Called(cx, CliCall("rebase", dest, ok,
                                                    cx.app.popup_state.kind))
                       IN  IF ok
                           THEN RefreshAll(set_status_message(c1, <<"Rebased to ">> \o dest))
                           ELSE {show_error(c1, <<"Failed to rebase: ">>
                                                    \o c1.calls[Len(c1.calls)].out)}
                       : ok \in cx.world.cli}

\* the Input popup closed only after its callback has run
InputKey_closing_last(cx, key) ==
    LET p == cx.app.popup_state
    IN  CASE key.code = "Esc" -> {[cx EXCEPT !.app.popup_state = PopupNone]}
          [] key.code = "Enter" /\ ~key.alt ->
                LET text == Join(p.textarea.lines)
                IN  {[c EXCEPT !.app.popup_state = PopupNone]
                     : c \in execute_popup_callback(cx, p.callback, text)}
          [] OTHER ->
                LET ta == ta_input(p.textarea, key)
                IN  {[cx EXCEPT !.app.popup_state.textarea = ta,
                                !.overflow = ~TextFits(ta)]}

\* the Input popup with Esc submitting like Enter
InputKey_esc_submits(cx, key) ==
    LET p == cx.app.popup_state
    IN  CASE key.code \in {"Esc", "Enter"} /\ ~key.alt ->
                LET text == Join(p.textarea.lines)
                    c1 == [cx EXCEPT !.app.popup_state = PopupNone]
                IN  execute_popup_callback(c1, p.callback, text)
          [] OTHER ->
                LET ta == ta_input(p.textarea, key)
                IN  {[cx EXCEPT !.app.popup_state.textarea = ta,
                                !.overflow = ~TextFits(ta)]}

\* the Input popup submitting on Enter whatever the modifiers
InputKey_any_enter_submits(cx, key) ==
    LET p == cx.app.popup_state
    IN  CASE key.code = "Esc" -> {[cx EXCEPT !.app.popup_state = PopupNone]}
          [] key.code = "Enter" ->
                LET text == Join(p.textarea.lines)
                    c1 == [cx EXCEPT !.app.popup_state = PopupNone]
                IN  execute_popup_callback(c1, p.callback, text)
          [] OTHER ->
                LET ta == ta_input(p.textarea, key)
                IN  {[cx EXCEPT !.app.popup_state.textarea = ta,
                                !.overflow = ~TextFits(ta)]}

\* handle_key_event, PopupState::Input
InputKey(cx, key) ==
    LET p == cx.app.popup_state
    IN  CASE key.code = "Esc" -> {[cx EXCEPT !.app.popup_state = PopupNone]}
          [] key.code = "Enter" /\ ~key.alt ->
                LET text == Join(p.textarea.lines)
                    c1 == [cx EXCEPT !.app.popup_state = PopupNone]
                IN  execute_popup_callback(c1, p.callback, text)
          [] OTHER ->
                LET ta == ta_input(p.textarea, key)
                IN  {[cx EXCEPT !.app.popup_state.textarea = ta,
                                !.overflow = ~TextFits(ta)]}

\* handle_key_event, PopupState::BookmarkSelect
BookmarkSelectKey(cx, key) ==
    LET p == cx.app.popup_state
        content == p.content
        cursor_position == p.cursor_position
        selected_index == p.selected_index
        filtered == Filtered(p.available_bookmarks, content)
    IN  CASE key.code = "Esc" -> {[cx EXCEPT !.app.popup_state = PopupNone]}
          [] key.code = "Enter" ->
                IF ~(filtered # <<>> /\ selected_index < Len(filtered)) /\ content = <<>>
                THEN {[cx EXCEPT !.app.popup_state = PopupNone]}
                ELSE
                LET bookmark_name ==
                        IF filtered # <<>> /\ selected_index < Len(filtered)
                        THEN filtered[selected_index + 1].name
                        ELSE content
                    c1 == [cx EXCEPT !.app.popup_state = PopupNone]
                IN  UNION {LET c2 == Called(c1, CliCall("bookmark set", bookmark_name, ok,
                                                        c1.app.popup_state.kind))
                           IN  IF ok
                               THEN RefreshAll(set_status_message(
                                        c2, <<"Set bookmark: ">> \o bookmark_name))
                               ELSE {show_error(c2, <<"Failed to set bookmark: ">>
                                                        \o c2.calls[Len(c2.calls)].out)}
                           : ok \in cx.world.cli}
          [] key.code = "Up" \/ IsChar(key, "k") ->
                IF filtered # <<>>
                THEN {[cx EXCEPT !.app.popup_state.selected_index = SaturatingSub(@, 1)]}
                ELSE {cx}
          [] key.code = "Down" \/ IsChar(key, "j") ->
                IF filtered # <<>>
                THEN {[cx EXCEPT !.app.popup_state.selected_index =
                                     Min(@ + 1, Len(filtered) - 1)]}
                ELSE {cx}
          [] key.code = "Tab" ->
                IF filtered # <<>> /\ selected_index < Len(filtered)
                THEN LET name == filtered[selected_index + 1].name
                     IN  {[cx EXCEPT !.app.popup_state.content = name,
                                     !.app.popup_state.cursor_position = Len(name)]}
                ELSE {cx}
          [] key.code = "Char" /\ key.ch \notin {"j", "k"} ->
                LET at == CharAt(content, char_to_byte(content, cursor_position))
                IN  IF at < 0 THEN {[cx EXCEPT !.ret = "panic"]}
                    ELSE {[cx EXCEPT !.app.popup_state.content = InsertAt(@, at, key.ch),
                                     !.app.popup_state.cursor_position = @ + 1,
                                     !.app.popup_state.selected_index = 0,
                                     !.overflow = Len(content) >= MaxLen]}
          [] key.code = "Backspace" ->
                IF cursor_position > 0
                THEN LET byte_pos == char_to_byte(content, cursor_position - 1)
                         at == CharAt(content, byte_pos)
                     IN  IF at < 0 \/ byte_pos >= ByteLen(content)
                         THEN {[cx EXCEPT !.app.popup_state.cursor_position = @ - 1,
                                          !.ret = "panic"]}
                         ELSE {[cx EXCEPT !.app.popup_state.cursor_position = @ - 1,
                                          !.app.popup_state.content = RemoveAt(@, at),
                                          !.app.popup_state.selected_index = 0]}
                ELSE {cx}
          [] key.code = "Left" ->
                {[cx EXCEPT !.app.popup_state.cursor_position = SaturatingSub(@, 1)]}
          [] key.code = "Right" ->
                {[cx EXCEPT !.app.popup_state.cursor_position = Min(@ + 1, Len(content))]}
          [] key.code = "Home" -> {[cx EXCEPT !.app.popup_state.cursor_position = 0]}
          [] key.code = "End" ->
                {[cx EXCEPT !.app.popup_state.cursor_position = Len(content)]}
          [] OTHER -> {cx}

\* handle_key_event, PopupState::Error
ErrorKey(cx, key) ==
    IF key.code \in {"Enter", "Esc"}
    THEN {[cx EXCEPT !.app.popup_state = PopupNone]}
    ELSE {cx}

\* the Help popup going back to the tab shown before, when it closes
HelpKey_restoring_tab(cx, key) ==
    IF IsChar(key, "?") \/ IsChar(key, "q") \/ key.code = "Esc"
    THEN {[cx EXCEPT !.app.popup_state = PopupNone,
                     !.app.current_tab = cx.app.previous_tab]}
    ELSE {cx}

\* the Help popup letting q through to the quit binding
HelpKey_quitting(cx, key) ==
    IF IsChar(key, "?") \/ IsChar(key, "q") \/ key.code = "Esc"
    THEN {[cx EXCEPT !.app.popup_state = PopupNone,
                     !.app.should_quit = IsChar(key, "q")]}
    ELSE {cx}

\* handle_key_event, PopupState::Help
HelpKey(cx, key) ==
    IF IsChar(key, "?") \/ IsChar(key, "q") \/ key.code = "Esc"
    THEN {[cx EXCEPT !.app.popup_state = PopupNone]}
    ELSE {cx}

\* lines the diff view may be scrolled down
MaxScroll == 2
\* characters a filter text may be typed up to
MaxFilter == 3

SwitchToTab(cx, new_tab) == {switch_to_tab(cx, e, new_tab) : e \in cx.world.refresh}
UpdateDiff(cx) == {update_diff(cx, e.diff) : e \in cx.world.refresh}

\* App::show_describe_popup, show_commit_popup, show_rebase_popup
show_describe_popup(cx) ==
    [cx EXCEPT !.app.popup_state = PopupInput("Describe", "Describe")]
show_commit_popup(cx) ==
    [cx EXCEPT !.app.popup_state = PopupInput("Commit", "Commit")]
show_rebase_popup(cx) ==
    [cx EXCEPT !.app.popup_state = PopupInput("Rebase destination", "Rebase")]

\* App::show_bookmark_popup; bookmarks: get_bookmarks().unwrap_or_else(Vec::new)
show_bookmark_popup(cx, bookmarks) ==
    [cx EXCEPT !.app.popup_state = PopupBookmarkSelect(bookmarks)]

\* App::track_current_bookmark
track_current_bookmark(cx) ==
    UNION {IF bookmark = None
           THEN {show_warning(cx, <<"No current bookmark to track.">>)}
           ELSE {LET r == track(bookmark[1], None, f)
                     c1 == NativeCalled(cx, "track", <<bookmark[1], None>>, r)
                 IN  IF r.ok
                     THEN set_status_message(c1, <<"Tracking bookmark: ">> \o bookmark[1])
                     ELSE show_error(c1, <<"Failed to track bookmark: ">> \o r.out)
                 : f \in cx.world.fails}
           : bookmark \in cx.world.current}

\* App::restore_working_copy
restore_working_copy(cx) ==
    UNION {LET c1 == Called(cx, CliCall("restore", <<>>, ok, cx.app.popup_state.kind))
           IN  IF ok THEN RefreshAll(c1)
               ELSE {show_error(c1, <<"Failed to restore working copy: ">>
                                        \o c1.calls[Len(c1.calls)].out)}
           : ok \in cx.world.cli}

\* handle_new_commit going on to the new commit after the warning
handle_new_commit_unchecked(cx) ==
    UNION {CASE empty = None ->
                   {show_error(cx, <<"Failed to check working copy: ">>)}
             [] OTHER ->
                   UNION {LET c0 == IF empty = Some(TRUE)
                                    THEN show_warning(
                                             cx, <<"Already on an empty commit. Add changes first.">>)
                                    ELSE cx
                              c1 == Called(c0, CliCall("new", <<>>, ok,
                                                       cx.app.popup_state.kind))
                          IN  IF ok
                              THEN RefreshAll(set_status_message(c1, <<"Created new commit">>))
                              ELSE {show_error(c1, <<"Failed to create new commit: ">>
                                                       \o c1.calls[Len(c1.calls)].out)}
                          : ok \in cx.world.cli}
           : empty \in cx.world.empty}

\* App::handle_new_commit; empty: is_working_copy_empty(), <<>> when it fails
handle_new_commit(cx) ==
    UNION {CASE empty = None ->
                   {show_error(cx, <<"Failed to check working copy: ">>)}
             [] empty = Some(TRUE) ->
                   {show_warning(cx, <<"Already on an empty commit. Add changes first.">>)}
             [] empty = Some(FALSE) ->
                   UNION {LET c1 == Called(cx, CliCall("new", <<>>, ok,
                                                       cx.app.popup_state.kind))
                          IN  IF ok
                              THEN RefreshAll(set_status_message(c1, <<"Created new commit">>))
                              ELSE {show_error(c1, <<"Failed to create new commit: ">>
                                                       \o c1.calls[Len(c1.calls)].out)}
                          : ok \in cx.world.cli}
           : empty \in cx.world.empty}

\* handle_fetch written with `?` on the engine call instead of the match
handle_fetch_propagating(cx) ==
    LET c0 == [cx EXCEPT !.app.loading_start = Some(0)]
    IN  UNION {LET r == git_fetch(None, f, fetched)
                   c1 == NativeCalled(c0, "git_fetch", <<None>>, r)
               IN  IF r.ok
                   THEN RefreshAll(set_status_message(clear_loading(c1),
                                                      <<"Fetched from remote">>))
                   ELSE {[c1 EXCEPT !.ret = "err"]}
               : f \in cx.world.fails, fetched \in cx.world.served}

\* App::handle_fetch
handle_fetch(cx) ==
    LET c0 == [cx EXCEPT !.app.loading_start = Some(0)]
    IN  UNION {LET r == git_fetch(None, f, fetched)
                   c1 == NativeCalled(c0, "git_fetch", <<None>>, r)
               IN  IF r.ok
                   THEN RefreshAll(set_status_message(clear_loading(c1),
                                                      <<"Fetched from remote">>))
                   ELSE {show_error(c1, <<"Failed to fetch: ">> \o r.out)}
               : f \in cx.world.fails, fetched \in cx.world.served}

\* App::handle_push
handle_push(cx) ==
    LET c0 == show_loading(cx, <<"Pushing to remote">>)
    IN  UNION {LET c1 == Called(c0, CliCall("git push", bookmark, ok,
                                            c0.app.popup_state.kind))
               IN  IF ok
                   THEN RefreshAll(set_status_message(
                            clear_loading(c1),
                            IF bookmark = None
                            THEN <<"Pushed current change (created temporary bookmark)">>
                            ELSE <<"Pushed bookmark: ">> \o bookmark[1]))
                   ELSE {show_error(clear_loading(c1),
                                    <<"Failed to push: ">> \o c1.calls[Len(c1.calls)].out)}
               : ok \in cx.world.cli, bookmark \in cx.world.current}

\* jj_ops::auto_track_bookmark: its result is discarded by the caller
auto_track_bookmark(cx, bookmark_name, ok) ==
    Called(cx, CliCall("bookmark track", bookmark_name, ok, cx.app.popup_state.kind))

\* handle_bookmark_checkout reporting the failure of the auto-track
handle_bookmark_checkout_reporting(cx) ==
    IF cx.app.selected_bookmark_index < Len(cx.app.bookmarks)
    THEN LET bookmark_name == cx.app.bookmarks[cx.app.selected_bookmark_index + 1].name
         IN  UNION {LET c1 == Called(cx, CliCall("edit", bookmark_name, ok,
                                                 cx.app.popup_state.kind))
                    IN  IF ok
                        THEN UNION {LET c2 == auto_track_bookmark(
                                                  set_status_message(
                                                      c1, <<"Checked out bookmark: ">>
                                                              \o bookmark_name),
                                                  bookmark_name, tracked)
                                    IN  IF tracked THEN RefreshAll(c2)
                                        ELSE {show_error(c2, <<"Failed to track bookmark: ">>)}
                                    : tracked \in cx.world.cli}
                        ELSE {show_error(c1, <<"Failed to checkout bookmark: ">>
                                                 \o c1.calls[Len(c1.calls)].out)}
                    : ok \in cx.world.cli}
    ELSE {cx}

\* App::handle_bookmark_checkout
handle_bookmark_checkout(cx) ==
    IF cx.app.selected_bookmark_index < Len(cx.app.bookmarks)
    THEN LET bookmark_name == cx.app.bookmarks[cx.app.selected_bookmark_index + 1].name
         IN  UNION {LET c1 == Called(cx, CliCall("edit", bookmark_name, ok,
                                                 cx.app.popup_state.kind))
                    IN  IF ok
                        THEN UNION {RefreshAll(auto_track_bookmark(
                                        set_status_message(
                                            c1, <<"Checked out bookmark: ">> \o bookmark_name),
                                        bookmark_name, tracked))
                                    : tracked \in cx.world.cli}
                        ELSE {show_error(c1, <<"Failed to checkout bookmark: ">>
                                                 \o c1.calls[Len(c1.calls)].out)}
                    : ok \in cx.world.cli}
    ELSE {cx}

\* j | Down stepping past the end of the log
NavigateDown_past_end(cx) ==
    LET a == cx.app
    IN  CASE a.current_tab = "WorkingCopy" ->
                IF a.files # <<>>
                THEN {IF c.ret = "ok" THEN [c EXCEPT !.app.diff_scroll_offset = 0] ELSE c
                      : c \in UpdateDiff([cx EXCEPT !.app.selected_file_index =
                                                        Min(@ + 1, Len(a.files) - 1)])}
                ELSE {cx}
          [] a.current_tab = "Bookmarks" ->
                IF a.bookmarks # <<>>
                THEN {[cx EXCEPT !.app.selected_bookmark_index =
                                     Min(@ + 1, Len(a.bookmarks) - 1)]}
                ELSE {cx}
          [] a.current_tab = "Log" ->
                IF a.log_commits # <<>>
                THEN {[cx EXCEPT !.app.selected_log_index = Min(@ + 1, Len(a.log_commits))]}
                ELSE {cx}

\* handle_key_event, j | Down with no popup
NavigateDown(cx) ==
    LET a == cx.app
    IN  CASE a.current_tab = "WorkingCopy" ->
                IF a.files # <<>>
                THEN {IF c.ret = "ok" THEN [c EXCEPT !.app.diff_scroll_offset = 0] ELSE c
                      : c \in UpdateDiff([cx EXCEPT !.app.selected_file_index =
                                                        Min(@ + 1, Len(a.files) - 1)])}
                ELSE {cx}
          [] a.current_tab = "Bookmarks" ->
                IF a.bookmarks # <<>>
                THEN {[cx EXCEPT !.app.selected_bookmark_index =
                                     Min(@ + 1, Len(a.bookmarks) - 1)]}
                ELSE {cx}
          [] a.current_tab = "Log" ->
                IF a.log_commits # <<>>
                THEN {[cx EXCEPT !.app.selected_log_index =
                                     Min(@ + 1, Len(a.log_commits) - 1)]}
                ELSE {cx}

\* handle_key_event, k | Up with no popup
NavigateUp(cx) ==
    LET a == cx.app
    IN  CASE a.current_tab = "WorkingCopy" ->
                {IF c.ret = "ok" THEN [c EXCEPT !.app.diff_scroll_offset = 0] ELSE c
                 : c \in UpdateDiff([cx EXCEPT !.app.selected_file_index =
                                                   SaturatingSub(@, 1)])}
          [] a.current_tab = "Bookmarks" ->
                {[cx EXCEPT !.app.selected_bookmark_index = SaturatingSub(@, 1)]}
          [] a.current_tab = "Log" ->
                {[cx EXCEPT !.app.selected_log_index = SaturatingSub(@, 1)]}

\* the browse keys with d, c and n bound on every tab
BrowseKey_on_every_tab(cx, key) ==
    LET a == cx.app
        wc == a.current_tab = "WorkingCopy"
    IN  CASE IsChar(key, "?") -> {[cx EXCEPT !.app.popup_state = PopupHelp]}
          [] IsChar(key, "q") -> {[cx EXCEPT !.app.should_quit = TRUE]}
          [] IsChar(key, "1") -> SwitchToTab(cx, "WorkingCopy")
          [] IsChar(key, "2") -> SwitchToTab(cx, "Bookmarks")
          [] IsChar(key, "3") -> SwitchToTab(cx, "Log")
          [] key.code = "Tab" -> SwitchToTab(cx, TabNext(a.current_tab))
          [] key.code = "BackTab" -> SwitchToTab(cx, TabPrev(a.current_tab))
          [] IsChar(key, "j") \/ key.code = "Down" ->
                LET p == should_process_navigation_key(cx, <<key.code, key.ch>>)
                IN  IF p[1] THEN NavigateDown(p[2]) ELSE {cx}
          [] IsChar(key, "k") \/ key.code = "Up" ->
                LET p == should_process_navigation_key(cx, <<key.code, key.ch>>)
                IN  IF p[1] THEN NavigateUp(p[2]) ELSE {cx}
          [] IsChar(key, "J") ->
                IF wc /\ a.current_diff # None
                THEN {[cx EXCEPT !.app.diff_scroll_offset = @ + 1,
                                 !.overflow = a.diff_scroll_offset >= MaxScroll]}
                ELSE {cx}
          [] IsChar(key, "K") ->
                IF wc
                THEN {[cx EXCEPT !.app.diff_scroll_offset = SaturatingSub(@, 1)]}
                ELSE {cx}
          [] key.code = "Enter" ->
                IF a.current_tab = "Bookmarks" THEN handle_bookmark_checkout(cx) ELSE {cx}
          [] IsChar(key, "d") -> {show_describe_popup(cx)}
          [] IsChar(key, "c") -> {show_commit_popup(cx)}
          [] IsChar(key, "n") -> handle_new_commit(cx)
          [] IsChar(key, "f") -> handle_fetch(cx)
          [] IsChar(key, "p") -> handle_push(cx)
          [] IsChar(key, "r") -> {show_rebase_popup(cx)}
          [] IsChar(key, "b") ->
                {show_bookmark_popup(cx, IF l = None THEN <<>> ELSE l[1])
                 : l \in cx.world.candidates}
          [] IsChar(key, "t") -> track_current_bookmark(cx)
          [] IsChar(key, "R") ->
                {IF c.ret = "ok" THEN set_status_message(c, <<"Refreshed">>) ELSE c
                 : c \in RefreshAll(cx)}
          [] IsChar(key, "X") ->
                {IF c.ret = "ok" THEN set_status_message(c, <<"Restored working copy">>)
                 ELSE c
                 : c \in restore_working_copy(cx)}
          [] OTHER -> {cx}

\* handle_key_event with none of the popups above active
BrowseKey(cx, key) ==
    LET a == cx.app
        wc == a.current_tab = "WorkingCopy"
    IN  CASE IsChar(key, "?") -> {[cx EXCEPT !.app.popup_state = PopupHelp]}
          [] IsChar(key, "q") -> {[cx EXCEPT !.app.should_quit = TRUE]}
          [] IsChar(key, "1") -> SwitchToTab(cx, "WorkingCopy")
          [] IsChar(key, "2") -> SwitchToTab(cx, "Bookmarks")
          [] IsChar(key, "3") -> SwitchToTab(cx, "Log")
          [] key.code = "Tab" -> SwitchToTab(cx, TabNext(a.current_tab))
          [] key.code = "BackTab" -> SwitchToTab(cx, TabPrev(a.current_tab))
          [] IsChar(key, "j") \/ key.code = "Down" ->
                LET p == should_process_navigation_key(cx, <<key.code, key.ch>>)
                IN  IF p[1] THEN NavigateDown(p[2]) ELSE {cx}
          [] IsChar(key, "k") \/ key.code = "Up" ->
                LET p == should_process_navigation_key(cx, <<key.code, key.ch>>)
                IN  IF p[1] THEN NavigateUp(p[2]) ELSE {cx}
          [] IsChar(key, "J") ->
                IF wc /\ a.current_diff # None
                THEN {[cx EXCEPT !.app.diff_scroll_offset = @ + 1,
                                 !.overflow = a.diff_scroll_offset >= MaxScroll]}
                ELSE {cx}
          [] IsChar(key, "K") ->
                IF wc
                THEN {[cx EXCEPT !.app.diff_scroll_offset = SaturatingSub(@, 1)]}
                ELSE {cx}
          [] key.code = "Enter" ->
                IF a.current_tab = "Bookmarks" THEN handle_bookmark_checkout(cx) ELSE {cx}
          [] IsChar(key, "d") /\ wc -> {show_describe_popup(cx)}
          [] IsChar(key, "c") /\ wc -> {show_commit_popup(cx)}
          [] IsChar(key, "n") /\ wc -> handle_new_commit(cx)
          [] IsChar(key, "f") -> handle_fetch(cx)
          [] IsChar(key, "p") -> handle_push(cx)
          [] IsChar(key, "r") -> {show_rebase_popup(cx)}
          [] IsChar(key, "b") ->
                {show_bookmark_popup(cx, IF l = None THEN <<>> ELSE l[1])
                 : l \in cx.world.candidates}
          [] IsChar(key, "t") -> track_current_bookmark(cx)
          [] IsChar(key, "R") ->
                {IF c.ret = "ok" THEN set_status_message(c, <<"Refreshed">>) ELSE c
                 : c \in RefreshAll(cx)}
          [] IsChar(key, "X") ->
                {IF c.ret = "ok" THEN set_status_message(c, <<"Restored working copy">>)
                 ELSE c
                 : c \in restore_working_copy(cx)}
          [] OTHER -> {cx}

\* App::handle_key_event: every context the handler can end in
handle_key_event(cx, key) ==
    LET kind == cx.app.popup_state.kind
    IN  CASE kind = "Input" -> InputKey(cx, key)
          [] kind = "BookmarkSelect" -> BookmarkSelectKey(cx, key)
          [] kind = "Error" -> ErrorKey(cx, key)
          [] kind = "Help" -> HelpKey(cx, key)
          [] OTHER -> BrowseKey(cx, key)

(***************************************************************************)
(* The host loop (src/src/main.rs, run_app).  One action is one iteration: *)
(* the status timeout, the draw, the poll that lasts d milliseconds, the   *)
(* key it returns if any, the check of should_quit.                        *)
(***************************************************************************)
StatusTtlMs == STATUS_TTL_SECS * MsPerSec
SpinnerCycleMs == SpinnerFrameMs * SpinnerFrames

\* d milliseconds pass
Advance(a, d) ==
    [a EXCEPT
        !.status_message_timestamp =
            IF @ = None THEN @ ELSE Some(Min(@[1] + d, StatusTtlMs + 1)),
        !.loading_start =
            IF @ = None THEN @ ELSE Some((@[1] + d) % SpinnerCycleMs),
        !.last_key_event =
            IF @ = None THEN @ ELSE Some(<<@[1][1], Min(@[1][2] + d, DEBOUNCE_MS)>>)]

\* terminal.draw when a redraw is needed or the spinner runs
Draw(a) ==
    IF a.needs_redraw \/ a.loading_message # None
    THEN [a EXCEPT !.needs_redraw = FALSE]
    ELSE a

\* the head of an iteration, up to the return of event::poll
BeforePoll(d) == Advance(Draw(update_status_message_timeout(app)), d)

\* the poll times out, or returns an event that is not a key
Idle(d) ==
    /\ running
    /\ app' = BeforePoll(d)
    /\ ev' = NoEvent
    /\ UNCHANGED <<store, opLog, opHeads, native, running>>

\* a loop that handles a second pending key before it goes round: the calls of
\* both keys fall in one iteration
KeyEvent_draining(d, key, world) ==
    /\ running
    /\ \E c1 \in handle_key_event(Context(BeforePoll(d), Some(key), world), key) :
          \E cx \in (IF c1.ret = "ok" THEN handle_key_event(c1, key) ELSE {c1}) :
             /\ ~cx.overflow
             /\ app' = IF cx.ret = "ok" THEN [cx.app EXCEPT !.needs_redraw = TRUE]
                       ELSE cx.app
             /\ running' = (cx.ret = "ok" /\ ~cx.app.should_quit)
             /\ store' = cx.disk.store
             /\ opLog' = cx.disk.opLog
             /\ opHeads' = cx.disk.opHeads
             /\ ev' = [key |-> Some(key), popup |-> app.popup_state, calls |-> cx.calls,
                       refresh |-> cx.refresh, status |-> cx.status, ret |-> cx.ret,
                       dt |-> d]
    /\ UNCHANGED native

\* the poll returns a key
KeyEvent(d, key, world) ==
    /\ running
    /\ \E cx \in handle_key_event(Context(BeforePoll(d), Some(key), world), key) :
          /\ ~cx.overflow
          /\ app' = IF cx.ret = "ok" THEN [cx.app EXCEPT !.needs_redraw = TRUE] ELSE cx.app
          /\ running' = (cx.ret = "ok" /\ ~cx.app.should_quit)
          /\ store' = cx.disk.store
          /\ opLog' = cx.disk.opLog
          /\ opHeads' = cx.disk.opHeads
          /\ ev' = [key |-> Some(key), popup |-> app.popup_state, calls |-> cx.calls,
                    refresh |-> cx.refresh, status |-> cx.status, ret |-> cx.ret,
                    dt |-> d]
    /\ UNCHANGED native

\* the poll returns a key while the bookmark popup is open, whose filter text may
\* grow to MaxFilter characters
FilterKeyEvent(d, key, world) ==
    /\ running
    /\ \E cx \in handle_key_event(Context(BeforePoll(d), Some(key), world), key) :
          /\ app.popup_state.kind = "BookmarkSelect"
          /\ key.code = "Char" => Len(cx.app.popup_state.content) <= MaxFilter
          /\ app' = IF cx.ret = "ok" THEN [cx.app EXCEPT !.needs_redraw = TRUE] ELSE cx.app
          /\ running' = (cx.ret = "ok" /\ ~cx.app.should_quit)
          /\ store' = cx.disk.store
          /\ opLog' = cx.disk.opLog
          /\ opHeads' = cx.disk.opHeads
          /\ ev' = [key |-> Some(key), popup |-> app.popup_state, calls |-> cx.calls,
                    refresh |-> cx.refresh, status |-> cx.status, ret |-> cx.ret,
                    dt |-> d]
    /\ UNCHANGED native

\* terminal.draw, event::poll or event::read returns an error
TerminalError ==
    /\ running
    /\ running' = FALSE
    /\ LET a == update_status_message_timeout(app)
       IN  app' \in {a, Draw(a)}
    /\ ev' = [NoEvent EXCEPT !.ret = "err"]
    /\ UNCHANGED <<store, opLog, opHeads, native>>

\* main: App::new, then refresh_status()? before run_app
InitApp(world) ==
    \E env \in world.refresh :
        LET cx == refresh_status(Context(AppNew, None, world), env)
        IN  /\ app = cx.app
            /\ running = (cx.ret = "ok")
            /\ ev = [NoEvent EXCEPT !.ret = cx.ret]

(***************************************************************************)
(* The program on one repository, driven by keys.                          *)
(***************************************************************************)
MaxUiOps == 1
UiScenarios == {<<2, FALSE, 2, <<3, 1>>, <<"origin">>>>}

AllListed ==
    [status |-> Some(<<[path |-> "f1", status |-> "Modified"],
                       [path |-> "f2", status |-> "Added"]>>),
     diff |-> TRUE,
     bookmarks |-> Some(<<[name |-> main, is_current |-> TRUE],
                          [name |-> main2, is_current |-> FALSE],
                          [name |-> dev, is_current |-> FALSE]>>),
     log |-> Some(<<[change_id |-> "k1", description |-> "one", author |-> "<a@b>"],
                    [change_id |-> "k2", description |-> "two", author |-> "<a@b>"]>>)]

\* every query of a refresh succeeds, or one of them fails
World ==
    [AnyWorld EXCEPT
        !.refresh = {AllListed,
                     [AllListed EXCEPT !.status = None],
                     [AllListed EXCEPT !.diff = FALSE],
                     [AllListed EXCEPT !.bookmarks = None],
                     [AllListed EXCEPT !.log = None]},
        !.candidates = {AllListed.bookmarks}]

\* the keys that open a popup, and the keys typed into one
PopupKeys ==
    {Char(c) : c \in {"d", "c", "r", "b", "?", "q"}} \cup {Key("Enter"), Key("Esc")}
TextKeys ==
    {Char("a"), Char(" "), Key("Enter"), AltEnter, Key("Esc"), Key("Backspace"),
     Key("Left"), Key("Down")}
Offered ==
    IF app.popup_state.kind \in {"Input", "BookmarkSelect"} THEN TextKeys ELSE PopupKeys

Init == InitRepo(UiScenarios) /\ InitApp(World)

Next ==
    \/ \E key \in Offered : KeyEvent(0, key, World) /\ Len(opLog') <= MaxUiOps + 1
    \/ \E d \in {0, StatusTtlMs} : Idle(d)
    \/ TerminalError

Spec == Init /\ [][Next]_vars

(***************************************************************************)
(* The same program driven by the keys that act at once, with no text      *)
(* popup.                                                                  *)
(***************************************************************************)
BrowseKeys ==
    {Char(c) : c \in {"n", "f", "p", "t", "X", "R", "q", "?", "1", "2"}}
        \cup {Key("Enter"), Key("Esc")}

NextBrowse ==
    \/ \E key \in BrowseKeys : KeyEvent(0, key, World) /\ Len(opLog') <= MaxUiOps + 1
    \/ \E d \in {0, StatusTtlMs} : Idle(d)
    \/ TerminalError

SpecBrowse == Init /\ [][NextBrowse]_vars

(***************************************************************************)
(* The host loop offered the keys listed in `keys` while no text popup is  *)
(* open and those listed in `text` while one is, each poll lasting one of  *)
(* the `deltas` milliseconds.                                              *)
(***************************************************************************)
NextOn(keys, text, deltas, world) ==
    \/ \E i \in DOMAIN deltas :
          \E k \in 1 .. (IF app.popup_state.kind \in {"Input", "BookmarkSelect"}
                         THEN Len(text) ELSE Len(keys)) :
             LET key == IF app.popup_state.kind \in {"Input", "BookmarkSelect"}
                        THEN text[k] ELSE keys[k]
             IN  KeyEvent(deltas[i], key, world) /\ Len(opLog') <= MaxUiOps + 1
    \/ \E i \in DOMAIN deltas : Idle(deltas[i])
    \/ TerminalError

(***************************************************************************)
(* Every key that makes a call changing the repository, each call failing  *)
(* at any of its steps or succeeding, while every query of a refresh       *)
(* succeeds.                                                               *)
(***************************************************************************)
MutationWorld ==
    [World EXCEPT
        !.refresh = {AllListed},
        !.fails = {"none", "write", "new_commit", "set_wc_commit", "rebase_descendants",
                   "fetch", "import_refs", "track_remote_bookmark", "commit"}]

SpecMutations ==
    /\ Init
    /\ [][NextOn(<<Char("d"), Char("c"), Char("r"), Char("b"), Char("n"), Char("f"),
                  Char("p"), Char("t"), Char("X"), Char("2"), Key("Enter"), Key("Esc")>>,
                <<Char("a"), Key("Enter"), Key("Esc")>>, <<0>>, MutationWorld)]_vars

(***************************************************************************)
(* Navigation, tab switches and the refresh key while the lists the        *)
(* queries return grow and shrink between refreshes.                       *)
(***************************************************************************)
ListWorld ==
    [World EXCEPT
        !.refresh = World.refresh \cup
                    {[status |-> Some(f), diff |-> TRUE, bookmarks |-> Some(b),
                      log |-> Some(l)]
                     : f \in FileLists, b \in BookmarkLists, l \in LogLists}]

SpecLists ==
    /\ Init
    /\ [][NextOn(<<Char("j"), Char("R"), Char("1"), Char("2"), Char("3"), Key("Tab"),
                  Key("BackTab")>>, <<>>,
                <<0, StatusTtlMs>>, ListWorld)]_vars

(***************************************************************************)
(* The bookmark popup, met with a filter text already typed (cursor at the *)
(* end, first candidate highlighted) over one of the candidate lists, and  *)
(* driven by the keys it handles.                                          *)
(***************************************************************************)
FilterTexts ==
    {<<>>, <<"m">>, main, <<"M", "a", "i", "n">>, <<"-", "2">>, <<"x">>}

InitSelect ==
    /\ InitRepo(UiScenarios)
    /\ \E content \in FilterTexts, bookmarks \in BookmarkLists :
          app = [refresh_status(Context(AppNew, None, World), AllListed).app EXCEPT
                    !.popup_state = [PopupBookmarkSelect(bookmarks) EXCEPT
                                        !.content = content,
                                        !.cursor_position = Len(content)]]
    /\ running = TRUE
    /\ ev = NoEvent

SpecSelect ==
    /\ InitSelect
    /\ [][NextOn(<<Key("Esc")>>,
                <<Char("m"), Char("j"), Char("k"), Key("Down"), Key("Up"), Key("Tab"),
                  Key("Backspace"), Key("Left"), Key("Enter"), Key("Esc")>>,
                <<0>>, World)]_vars

(***************************************************************************)
(* The navigation keys of browse mode, arriving 10, 49 or 80 milliseconds  *)
(* after the previous iteration of the loop.                               *)
(***************************************************************************)
SpecNav ==
    /\ Init
    /\ [][NextOn(<<Char("j"), Char("k"), Key("Down"), Char("2")>>, <<>>,
                <<10, 49, 80>>, World)]_vars

(***************************************************************************)
(* A status message set by the refresh key and the ticks of the loop that  *)
(* follow it 999, 1000 or 1001 milliseconds apart.                         *)
(***************************************************************************)
SpecStatus ==
    /\ Init
    /\ [][NextOn(<<Char("R"), Char("2"), Char("1")>>, <<>>, <<999, 1000, 1001>>,
                World)]_vars

(***************************************************************************)
(* The filter text of the bookmark popup edited with one-byte and two-byte *)
(* characters, at every cursor position.                                   *)
(***************************************************************************)
EditKeys ==
    <<Char("é"), Char("m"), Key("Backspace"), Key("Left"), Key("Right"), Key("Home"),
      Key("End"), Key("Tab"), Key("Down")>>

NextEdit ==
    \/ \E k \in DOMAIN EditKeys : FilterKeyEvent(0, EditKeys[k], World)
    \/ Idle(0)
    \/ TerminalError

SpecEdit == InitSelect /\ [][NextEdit]_vars

(***************************************************************************)
(* The keys bound on the WorkingCopy tab alone, pressed on every tab.       *)
(***************************************************************************)
SpecTabKeys ==
    /\ Init
    /\ [][NextOn(<<Char("d"), Char("c"), Char("n"), Char("1"), Char("2"), Char("3"),
                  Char("j")>>,
                <<Key("Esc")>>, <<0>>, World)]_vars

(***************************************************************************)
(* The selections of the three lists: navigation down and up on every tab, *)
(* each key arriving long after the one before, between refreshes that     *)
(* return longer or shorter lists or fail.                                 *)
(***************************************************************************)
SpecIndices ==
    /\ Init
    /\ [][NextOn(<<Char("j"), Char("k"), Char("R"), Char("2"), Char("3"), Char("1")>>,
                <<>>, <<StatusTtlMs>>, ListWorld)]_vars

(***************************************************************************)
(* The spinner: fetches that succeed or fail, and iterations of the loop   *)
(* 40 or 80 milliseconds apart while the loading message is shown.         *)
(***************************************************************************)
SpecSpinner ==
    /\ Init
    /\ [][NextOn(<<Char("f"), Key("Esc")>>, <<>>, <<40, 80>>, World)]_vars

(***************************************************************************)
(* The popups that report an outcome, on every tab: the program is started *)
(* in a repository whose main already tracks main@origin and whose working *)
(* copy is empty, and is driven by the keys that open a popup or make a     *)
(* call at once.                                                           *)
(***************************************************************************)
FeedbackWorld == [World EXCEPT !.empty = {Some(TRUE)}, !.refresh = {AllListed}]

SpecFeedback ==
    /\ InitRepo({<<2, FALSE, 2, <<1, 1, "origin">>, <<"origin">>>>})
    /\ InitApp(FeedbackWorld)
    /\ [][NextOn(<<Char("n"), Char("t"), Char("p"), Char("r"), Char("b"), Char("1"),
                  Char("2"), Char("?"), Char("q"), Key("Esc"), Key("Enter")>>,
                <<Char("a"), Key("Enter"), Key("Esc")>>, <<0>>, FeedbackWorld)]_vars

(***************************************************************************)
(* The Native methods called directly on one handle, as the tests of       *)
(* native_operations.rs call them.                                         *)
(***************************************************************************)
Msgs == {<<>>, <<" ">>, <<"a">>, <<" ", "b">>}
RemoteArgs == {None, Some("upstream")}
Served == {[b \in BookmarkNames |-> IF b = main THEN 2 ELSE Absent],
           [b \in BookmarkNames |-> IF b = main THEN 3 ELSE 1]}
TrackArgs == {main}
\* the steps the environment makes fail (the methods handle every fallible step;
\* these are the ones exercised)
DescribeFails == {"none", "write", "commit"}
CommitFails == {"none", "new_commit", "rebase_descendants", "commit"}
FetchFails == {"none", "fetch", "import_refs", "commit"}
TrackFails == {"none", "track_remote_bookmark", "commit"}
Scenarios ==
    {<<1, FALSE, 2, <<Absent, Absent>>, <<>> >>,
     <<1, TRUE, 2, <<2, 3>>, <<"origin">> >>,
     <<EmptyTree, FALSE, 2, <<2, 1>>, <<"upstream", "origin">> >>,
     <<1, FALSE, NoCommit, <<2, 3>>, <<"origin">> >>}

CallDescribe ==
    \E m \in Msgs, f \in DescribeFails :
        LET r == describe(m, f)
        IN  /\ Fits(r)
            /\ Persist(r)
            /\ ev' = [NoEvent EXCEPT !.calls = <<Call("describe", m, r, "None")>>]
            /\ UNCHANGED <<native, app, running>>

CallCommit ==
    \E m \in Msgs, f \in CommitFails :
        LET r == commit(m, f)
        IN  /\ Fits(r)
            /\ Persist(r)
            /\ ev' = [NoEvent EXCEPT !.calls = <<Call("commit", m, r, "None")>>]
            /\ UNCHANGED <<native, app, running>>

CallGitFetch ==
    \E remote \in RemoteArgs, f \in FetchFails, fetched \in Served :
        LET r == git_fetch(remote, f, fetched)
        IN  /\ Fits(r)
            /\ Persist(r)
            /\ ev' = [NoEvent EXCEPT !.calls = <<Call("git_fetch", remote, r, "None")>>]
            /\ UNCHANGED <<native, app, running>>

CallTrack ==
    \E b \in TrackArgs, remote \in RemoteArgs, f \in TrackFails :
        LET r == track(b, remote, f)
        IN  /\ Fits(r)
            /\ Persist(r)
            /\ ev' = [NoEvent EXCEPT !.calls = <<Call("track", <<b, remote>>, r, "None")>>]
            /\ UNCHANGED <<native, app, running>>

InitEngine ==
    /\ InitRepo(Scenarios)
    /\ app = AppNew
    /\ running = TRUE
    /\ ev = NoEvent

NextEngine == CallDescribe \/ CallCommit \/ CallGitFetch \/ CallTrack

SpecEngine == InitEngine /\ [][NextEngine]_vars

(***************************************************************************)
(* Properties of the Native methods.                                       *)
(***************************************************************************)
OnDisk == <<store, opLog, opHeads>>
EngineFns == {"describe", "commit", "git_fetch", "track"}

AlreadyTracked(c) ==
    c.fn = "track" /\ c.ok /\ c.out[1] = "Remote bookmark already tracked: "

\* C4: describe, commit, git_fetch and track are atomic.  A call that fails at
\* any step leaves the store, the operation log and its heads as they were; a
\* call that succeeds adds exactly one operation, which carries all its
\* changes, on top of an unchanged log.
C4_Atomic ==
    [][\A c \in {ev'.calls[i] : i \in DOMAIN ev'.calls} :
        c.fn \in EngineFns =>
            IF c.ok /\ ~AlreadyTracked(c)
            THEN /\ Len(opLog') = Len(opLog) + 1
                 /\ SubSeq(opLog', 1, Len(opLog)) = opLog
                 /\ SubSeq(store', 1, Len(store)) = store
                 /\ opHeads' \ opHeads = {Len(opLog')}
                 /\ \A id \in opLog'[Len(opLog')].view.visible : id \in DOMAIN store'
            ELSE UNCHANGED OnDisk]_vars

\* a commit that failed at rebase_descendants, after the rewrite, the new
\* commit and the working-copy marker were made in the transaction
C4_Witness ==
    /\ Len(ev.calls) = 1
    /\ ev.calls[1].fn = "commit"
    /\ ~ev.calls[1].ok
    /\ ev.calls[1].out = <<"rebase_descendants">>

OfChange(view, commits, ch) == {id \in view.visible : commits[id].change = ch}
Changes(view, commits) == {commits[id].change : id \in view.visible}

\* C5: every mutation opens its transaction on the live state of the store:
\* the working-copy commit id that describe and commit read is the one a
\* loader of the store's head sees, so after a successful commit a following
\* describe reads the new empty commit.
C5_ReadsLiveState ==
    [][\A c1 \in {ev.calls[i] : i \in DOMAIN ev.calls},
         c2 \in {ev'.calls[i] : i \in DOMAIN ev'.calls} :
        (/\ c1.fn = "commit" /\ c1.ok
         /\ c2.fn = "describe" /\ c2.tx)
            => /\ c2.wc = LiveView.wc
               /\ store[c2.wc].tree = EmptyTree
               /\ store[c2.wc].desc = <<>>]_vars

\* C9: track(name) twice in a row: the second call answers "already tracked"
\* and changes nothing.
C9_SecondTrackIsNoOp ==
    [][\A c1 \in {ev.calls[i] : i \in DOMAIN ev.calls},
         c2 \in {ev'.calls[i] : i \in DOMAIN ev'.calls} :
        (/\ c1.fn = "track" /\ c1.ok
         /\ <<c1.arg[1], RemoteOr(c1.arg[2])>> \in LiveView.tracked
         /\ c2.fn = "track" /\ c2.arg = c1.arg)
            => AlreadyTracked(c2) /\ UNCHANGED OnDisk]_vars

\* C6: a successful commit(msg) adds exactly one change to the history; the
\* new commit has the empty tree, its only parent is the former working-copy
\* commit now carrying msg, and the working-copy marker points at it.
C6_CommitAddsOneChild ==
    [][\A c \in {ev'.calls[i] : i \in DOMAIN ev'.calls} :
        (c.fn = "commit" /\ c.ok) =>
            LET before == LiveView
                after == LiveView'
                was == store[before.wc]
                added == Changes(after, store') \ Changes(before, store)
                final == OfChange(after, store', was.change)
            IN  /\ Cardinality(added) = 1
                /\ store'[after.wc].change \in added
                /\ store'[after.wc].tree = EmptyTree
                /\ Cardinality(final) = 1
                /\ store'[after.wc].parents = final
                /\ \A f \in final :
                      /\ store'[f].desc = c.arg
                      /\ store'[f].tree = was.tree
                      /\ store'[f].parents = was.parents]_vars

\* C7: a successful describe(msg) changes only the description of the
\* working-copy commit: no change is added to the history, the marker
\* designates the rewritten commit, its parents and content are as before.
C7_DescribeInPlace ==
    [][\A c \in {ev'.calls[i] : i \in DOMAIN ev'.calls} :
        (c.fn = "describe" /\ c.ok) =>
            LET before == LiveView
                after == LiveView'
                was == store[before.wc]
                now == store'[after.wc]
            IN  /\ Changes(after, store') = Changes(before, store)
                /\ Cardinality(after.visible) = Cardinality(before.visible)
                /\ now.change = was.change
                /\ now.desc = c.arg
                /\ now.parents = was.parents
                /\ now.tree = was.tree]_vars

(***************************************************************************)
(* Properties of the key dispatch.                                         *)
(***************************************************************************)
EscKey == Some(Key("Esc"))
EnterKey == Some(Key("Enter"))

\* the call an Input popup makes for its callback
CallbackFn(callback) ==
    CASE callback = "Describe" -> "describe"
      [] callback = "Commit" -> "commit"
      [] callback = "Rebase" -> "rebase"

\* the text the call of a callback is made with
CallbackArg(callback, text) ==
    IF callback = "Rebase"
    THEN IF Trim(text) = <<>> THEN <<"@">> ELSE Trim(text)
    ELSE text

\* C1: while a popup is active, a key takes no browse-mode effect: it does not
\* switch the tab, move a selection, scroll the diff, set should_quit, open a
\* popup of another kind (the Error of the popup's own submit aside), nor make
\* a call or a refresh other than those of the popup's own submit.
C1_PopupConsumesKey ==
    [][(app.popup_state.kind # "None" /\ ev'.key # None)
       => /\ app'.current_tab = app.current_tab
          /\ app'.should_quit = app.should_quit
          /\ app'.diff_scroll_offset = app.diff_scroll_offset
          /\ app'.popup_state.kind \in {app.popup_state.kind, "None", "Error"}
          /\ \A i \in DOMAIN ev'.calls :
                ev'.calls[i].fn \in {"describe", "commit", "rebase", "bookmark set"}
          /\ ev'.calls = <<>>
                => /\ ev'.refresh = <<>>
                   /\ app'.selected_file_index = app.selected_file_index
                   /\ app'.selected_bookmark_index = app.selected_bookmark_index
                   /\ app'.selected_log_index = app.selected_log_index]_vars

\* C2: Enter without Alt in an Input popup makes the one call of the callback,
\* with the popup already None and the lines of the buffer joined with "\n" as
\* its text; the event ends with popup None when the call succeeded and with an
\* Error popup when it failed.
C2_SubmitClosesFirst ==
    (ev.key = EnterKey /\ ev.popup.kind = "Input")
    => /\ Len(ev.calls) = 1
       /\ ev.calls[1].popup = "None"
       /\ ev.calls[1].fn = CallbackFn(ev.popup.callback)
       /\ ev.calls[1].arg = CallbackArg(ev.popup.callback, Join(ev.popup.textarea.lines))
       /\ app.popup_state.kind = IF ev.calls[1].ok THEN "None" ELSE "Error"

\* a buffer of two lines was submitted to describe, which succeeded
C2_Witness ==
    /\ ev.key = EnterKey
    /\ ev.popup.kind = "Input"
    /\ ev.popup.textarea.lines = << <<"a">>, <<>> >>
    /\ Len(ev.calls) = 1
    /\ ev.calls[1].fn = "describe"
    /\ ev.calls[1].arg = <<"a", "\n">>
    /\ ev.calls[1].ok
    /\ app.popup_state = PopupNone

\* C3: Esc in an Input or BookmarkSelect popup, whatever it holds, ends with
\* popup None, having made no call that changes the repository and run no
\* refresh.
C3_EscDiscards ==
    (ev.key = EscKey /\ ev.popup.kind \in {"Input", "BookmarkSelect"})
    => /\ app.popup_state = PopupNone
       /\ ev.calls = <<>>
       /\ ev.refresh = <<>>
       /\ ~ev.status

\* Esc was pressed on a Commit popup that held text, with the cursor moved
C3_Witness ==
    /\ ev.key = EscKey
    /\ ev.popup.kind = "Input"
    /\ ev.popup.callback = "Commit"
    /\ ev.popup.textarea.lines = << <<"a">> >>
    /\ ev.popup.textarea.col = 0
    /\ app.popup_state = PopupNone
    /\ ev.calls = <<>>

\* the actions that change the repository, as the calls they make
MutatingFns ==
    {"describe", "commit", "rebase", "bookmark set", "new", "git_fetch", "git push",
     "track", "edit", "restore"}

\* C10: a key event in which a mutating call succeeded, and which returned
\* normally, has set a status message and run refresh_all.
C10_SuccessRefreshes ==
    \A i \in DOMAIN ev.calls :
        (ev.calls[i].fn \in MutatingFns /\ ev.calls[i].ok /\ ev.ret = "ok")
        => /\ ev.status
           /\ \E j \in DOMAIN ev.refresh : ev.refresh[j] = "refresh_all"

\* s ends with t
EndsWith(s, t) ==
    /\ Len(t) <= Len(s)
    /\ SubSeq(s, Len(s) - Len(t) + 1, Len(s)) = t

\* C11: a key event in which a mutating call failed ends with the Error popup
\* that carries the message of the failure, has set no status message and has
\* run no refresh.
C11_FailureShowsError ==
    \A i \in DOMAIN ev.calls :
        (ev.calls[i].fn \in MutatingFns /\ ~ev.calls[i].ok)
        => /\ app.popup_state.kind = "Error"
           /\ EndsWith(app.popup_state.message, ev.calls[i].out)
           /\ ~ev.status
           /\ ev.refresh = <<>>

InRange(i, len) == IF len > 0 THEN i \in 0 .. len - 1 ELSE i = 0

Ran(name) == \E j \in DOMAIN ev.refresh : ev.refresh[j] = name

\* C13: after refresh_status, refresh_bookmarks or refresh_log has run, whatever
\* the length of the list it refreshed, the selection index of that list is
\* within the list, and 0 when the list is empty.
C13_SelectionClamped ==
    /\ Ran("refresh_status") => InRange(app.selected_file_index, Len(app.files))
    /\ Ran("refresh_bookmarks")
       => InRange(app.selected_bookmark_index, Len(app.bookmarks))
    /\ Ran("refresh_log") => InRange(app.selected_log_index, Len(app.log_commits))

\* the bookmark list was refreshed to two entries and the selection rests on the
\* last of them, while the file list and the log were refreshed to none
C13_Witness ==
    /\ Ran("refresh_bookmarks")
    /\ Len(app.bookmarks) = 2
    /\ app.selected_bookmark_index = 1
    /\ Len(app.files) = 0
    /\ Len(app.log_commits) = 0

\* the positions of the candidates whose lower-cased name contains the
\* lower-cased text
Matching(bookmarks, text) ==
    {i \in DOMAIN bookmarks :
        \/ text = <<>>
        \/ Contains(ToLowercase(bookmarks[i].name), ToLowercase(text))}

\* the k-th smallest member of S
Nth(S, k) == CHOOSE i \in S : Cardinality({j \in S : j < i}) = k - 1

Names(bookmarks) == [i \in DOMAIN bookmarks |-> bookmarks[i].name]

\* C15: the filtered view of the bookmark popup is the candidates whose lower-cased
\* name contains the lower-cased filter text (all of them for an empty text), in
\* the order of the candidate list; [main, main-2, dev] filtered by "main" is
\* [main, main-2].
C15_FilteredIsSubsequence ==
    app.popup_state.kind = "BookmarkSelect"
    => LET p == app.popup_state
           f == Filtered(p.available_bookmarks, p.content)
           keep == Matching(p.available_bookmarks, p.content)
       IN  /\ Len(f) = Cardinality(keep)
           /\ \A k \in 1 .. Len(f) : f[k] = p.available_bookmarks[Nth(keep, k)]
           /\ (Names(p.available_bookmarks) = <<main, main2, dev>> /\ p.content = main)
              => Names(f) = <<main, main2>>

\* the text "Main" over [main, main-2, dev]: Down has moved the highlight to the
\* second and last entry of the filtered view
C15_Witness ==
    /\ app.popup_state.kind = "BookmarkSelect"
    /\ app.popup_state.content = <<"M", "a", "i", "n">>
    /\ Names(app.popup_state.available_bookmarks) = <<main, main2, dev>>
    /\ ev.key = Some(Key("Down"))
    /\ app.popup_state.selected_index = 1

\* C17: after a key event that changed the filter text of the bookmark popup the
\* highlighted index is 0, and in every state of the popup whose filtered view is
\* not empty the highlighted index is within the view.
C17_HighlightInRange ==
    app.popup_state.kind = "BookmarkSelect"
    => LET p == app.popup_state
           f == Filtered(p.available_bookmarks, p.content)
       IN  /\ (ev.key # None /\ ev.popup.kind = "BookmarkSelect"
                   /\ p.content # ev.popup.content)
              => p.selected_index = 0
           /\ f # <<>> => p.selected_index \in 0 .. Len(f) - 1

\* C14: Enter in the bookmark popup closes the popup and then calls set-bookmark
\* exactly once, with the name of the highlighted candidate of the filtered view
\* when that view is not empty, otherwise with the typed text when there is some;
\* when both are empty it closes the popup and makes no call.
C14_EnterResolvesName ==
    (ev.key = Some(Key("Enter")) /\ ev.popup.kind = "BookmarkSelect")
    => LET p == ev.popup
           f == Filtered(p.available_bookmarks, p.content)
       IN  IF f = <<>> /\ p.content = <<>>
           THEN ev.calls = <<>> /\ app.popup_state.kind = "None"
           ELSE /\ Len(ev.calls) = 1
                /\ ev.calls[1].fn = "bookmark set"
                /\ ev.calls[1].popup = "None"
                /\ IF f # <<>>
                   THEN /\ p.selected_index < Len(f)
                        /\ ev.calls[1].arg = f[p.selected_index + 1].name
                   ELSE ev.calls[1].arg = p.content

\* C16: Tab in the bookmark popup with a filtered view that is not empty puts the
\* name of the highlighted candidate in the buffer and the cursor after its last
\* character; with an empty view it changes nothing; it makes no call and leaves
\* the popup open.
C16_TabCompletes ==
    (ev.key = Some(Key("Tab")) /\ ev.popup.kind = "BookmarkSelect")
    => LET p == ev.popup
           f == Filtered(p.available_bookmarks, p.content)
       IN  /\ ev.calls = <<>>
           /\ app.popup_state.kind = "BookmarkSelect"
           /\ IF f = <<>>
              THEN app.popup_state = p
              ELSE /\ p.selected_index < Len(f)
                   /\ app.popup_state.content = f[p.selected_index + 1].name
                   /\ app.popup_state.cursor_position = Len(app.popup_state.content)
                   /\ app.popup_state.available_bookmarks = p.available_bookmarks

NavKeys == {Char("j"), Char("k"), Key("Down"), Key("Up")}

\* the selection of the current tab after one step down or up
Stepped(a, key) ==
    LET down == key \in {Char("j"), Key("Down")}
        step(i, len) == IF down THEN (IF i + 1 < len THEN i + 1 ELSE i)
                        ELSE (IF i > 0 THEN i - 1 ELSE 0)
    IN  <<IF a.current_tab = "WorkingCopy"
          THEN step(a.selected_file_index, Len(a.files)) ELSE a.selected_file_index,
          IF a.current_tab = "Bookmarks"
          THEN step(a.selected_bookmark_index, Len(a.bookmarks))
          ELSE a.selected_bookmark_index,
          IF a.current_tab = "Log"
          THEN step(a.selected_log_index, Len(a.log_commits)) ELSE a.selected_log_index>>

Selections(a) ==
    <<a.selected_file_index, a.selected_bookmark_index, a.selected_log_index>>

\* C18: a navigation key of browse mode is suppressed exactly when the last
\* accepted navigation key has the same key code and was accepted less than
\* DEBOUNCE_MS earlier; a suppressed key changes no selection and leaves the
\* recorded key and time as they are, an accepted key moves the selection of the
\* current tab one step and records itself with the current time.
C18_Debounce ==
    [][(ev'.key # None /\ ev'.key[1] \in NavKeys /\ app.popup_state.kind = "None")
       => LET code == <<ev'.key[1].code, ev'.key[1].ch>>
              last == app.last_key_event
              suppressed == /\ last # None
                            /\ last[1][1] = code
                            /\ last[1][2] + ev'.dt < DEBOUNCE_MS
          IN  IF suppressed
              THEN /\ Selections(app') = Selections(app)
                   /\ app'.last_key_event = Some(<<code, last[1][2] + ev'.dt>>)
              ELSE /\ Selections(app') = Stepped(app, ev'.key[1])
                   /\ app'.last_key_event = Some(<<code, 0>>)]_vars

\* Down 10 ms after an accepted Down: the selection has moved once and the record
\* is still the first Down, now 10 ms old
C18_Witness ==
    /\ ev.key = Some(Key("Down"))
    /\ ev.dt = 10
    /\ app.last_key_event = Some(<<<<"Down", "">>, 10>>)
    /\ app.current_tab = "Bookmarks"
    /\ app.selected_bookmark_index = 1

\* C19: a status message that the iteration does not replace is still there after
\* the tick of an iteration that starts less than STATUS_TTL_SECS seconds after it
\* was set (1999 ms included), and is cleared together with its timestamp by the
\* tick of an iteration that starts 2001 ms or more after it was set.
C19_StatusTtl ==
    [][(running /\ app.status_message_timestamp # None /\ ~ev'.status)
       => LET age == app.status_message_timestamp[1]
          IN  /\ age < StatusTtlMs
                 => /\ app'.status_message = app.status_message
                    /\ app'.status_message # None
                    /\ app'.status_message_timestamp # None
                    /\ app'.status_message_timestamp[1] >= age
              /\ age > StatusTtlMs
                 => /\ app'.status_message = None
                    /\ app'.status_message_timestamp = None]_vars

\* a tick finds the message "Refreshed" 1999 ms old
C19_Witness ==
    /\ running
    /\ ev.key = None
    /\ app.status_message = Some(<<"Refreshed">>)
    /\ app.status_message_timestamp = Some(StatusTtlMs - 1)

\* C20: when the key event of a fetch (f) or of a push (p) has finished, whether
\* the call succeeded or failed, the loading indicator is cleared: loading_message
\* and loading_start are both None.
C20_LoadingCleared ==
    (/\ ev.key \in {Some(Char("f")), Some(Char("p"))}
     /\ \E i \in DOMAIN ev.calls : ev.calls[i].fn \in {"git_fetch", "git push"})
    => /\ app.loading_message = None
       /\ app.loading_start = None

\* the keys that close a popup of the kind
Closes(kind, key) ==
    \/ key.code = "Esc"
    \/ key.code = "Enter" /\ ~key.alt
    \/ kind = "Help" /\ (IsChar(key, "?") \/ IsChar(key, "q"))

\* C21: a key that closes the popup it meets (Esc, Enter, and ? or q on the Help
\* popup) leaves current_tab as it was, whatever the kind of the popup and whether
\* the call it submits succeeds or fails.
C21_CloseKeepsTab ==
    [][(/\ ev'.key # None
        /\ app.popup_state.kind # "None"
        /\ Closes(app.popup_state.kind, ev'.key[1]))
       => app'.current_tab = app.current_tab]_vars

\* Enter submitted the rebase popup on the Bookmarks tab, shown after the
\* WorkingCopy tab, and the rebase failed
C21_Witness ==
    /\ ev.key = EnterKey
    /\ ev.popup.kind = "Input"
    /\ Len(ev.calls) = 1
    /\ ~ev.calls[1].ok
    /\ app.popup_state.kind = "Error"
    /\ app.current_tab = "Bookmarks"
    /\ app.previous_tab = "WorkingCopy"

\* C22: with an Error or a Warning popup up, Enter or Esc sets the popup state to
\* None and changes nothing else, and makes no call; any other key changes
\* nothing at all.
C22_FeedbackDismissed ==
    [][(ev'.key # None /\ app.popup_state.kind \in {"Error", "Warning"})
       => LET before == [BeforePoll(ev'.dt) EXCEPT !.needs_redraw = TRUE]
          IN  /\ ev'.calls = <<>>
              /\ ev'.refresh = <<>>
              /\ UNCHANGED OnDisk
              /\ app' = IF ev'.key[1].code \in {"Enter", "Esc"}
                        THEN [before EXCEPT !.popup_state = PopupNone]
                        ELSE before]_vars

\* the cursor of a text area as an offset into lines().join("\n")
FlatCursor(ta) ==
    Len(Join(SubSeq(ta.lines, 1, ta.row))) + (IF ta.row > 0 THEN 1 ELSE 0) + ta.col

\* C23: Enter with Alt in an Input popup does not submit: the popup stays open
\* with the same callback, no call is made and no refresh runs, and the buffer
\* gains a line break at the cursor, which moves to the start of the new line.
C23_AltEnterBreaksLine ==
    (ev.key = Some(AltEnter) /\ ev.popup.kind = "Input")
    => LET was == ev.popup.textarea
           now == app.popup_state.textarea
       IN  /\ app.popup_state.kind = "Input"
           /\ app.popup_state.callback = ev.popup.callback
           /\ app.popup_state.title = ev.popup.title
           /\ ev.calls = <<>>
           /\ ev.refresh = <<>>
           /\ ~ev.status
           /\ Len(now.lines) = Len(was.lines) + 1
           /\ Join(now.lines) = InsertAt(Join(was.lines), FlatCursor(was), "\n")
           /\ now.row = was.row + 1
           /\ now.col = 0

\* the line break was put before the "a" of the commit popup
C23_Witness ==
    /\ ev.key = Some(AltEnter)
    /\ ev.popup.kind = "Input"
    /\ ev.popup.callback = "Commit"
    /\ ev.popup.textarea.lines = << <<"a">> >>
    /\ app.popup_state.kind = "Input"
    /\ app.popup_state.textarea.lines = << <<>>, <<"a">> >>

\* C24: Enter on a Describe or Commit popup whose buffer is empty or holds only
\* whitespace ends with a Warning popup, not an Error popup, and no call of the
\* event has started a transaction.
C24_BlankIsWarning ==
    (/\ ev.key = EnterKey
     /\ ev.popup.kind = "Input"
     /\ ev.popup.callback \in {"Describe", "Commit"}
     /\ Trim(Join(ev.popup.textarea.lines)) = <<>>)
    => /\ app.popup_state.kind = "Warning"
       /\ \A i \in DOMAIN ev.calls : ~ev.calls[i].tx

\* C25: 'n' on the WorkingCopy tab while the working copy is empty opens the
\* Warning popup; the event makes no call, sets no status message and runs no
\* refresh.
C25_EmptyIsWarning ==
    (/\ ev.key = Some(Char("n"))
     /\ ev.popup.kind \in {"None", "Warning"}
     /\ app.current_tab = "WorkingCopy")
    => /\ app.popup_state
             = PopupWarning(<<"Already on an empty commit. Add changes first.">>)
       /\ ev.calls = <<>>
       /\ ~ev.status
       /\ ev.refresh = <<>>

\* 'n' pressed with no popup up, after a push had set a status message
C25_Witness ==
    /\ ev.key = Some(Char("n"))
    /\ ev.popup.kind = "None"
    /\ app.current_tab = "WorkingCopy"
    /\ app.popup_state.kind = "Warning"
    /\ app.status_message # None

\* C26: 't' for a current bookmark that is already tracked ends with a Warning
\* popup, and nothing on disk changes.
C26_TrackedIsWarning ==
    [][\A c \in {ev'.calls[i] : i \in DOMAIN ev'.calls} :
        (c.fn = "track" /\ <<c.arg[1], RemoteOr(c.arg[2])>> \in LiveView.tracked)
        => /\ app'.popup_state.kind = "Warning"
           /\ ~ev'.status
           /\ UNCHANGED OnDisk]_vars

\* C27: after a refresh_status that succeeded, the file selection index is 0.
C27_FileIndexReset ==
    (Ran("refresh_status") /\ ev.ret = "ok") => app.selected_file_index = 0

\* the tab a tab key of browse mode asks for
Target(key, tab) ==
    CASE IsChar(key, "1") -> "WorkingCopy"
      [] IsChar(key, "2") -> "Bookmarks"
      [] IsChar(key, "3") -> "Log"
      [] key.code = "Tab" ->
            (CASE tab = "WorkingCopy" -> "Bookmarks" [] tab = "Bookmarks" -> "Log"
               [] OTHER -> "WorkingCopy")
      [] key.code = "BackTab" ->
            (CASE tab = "WorkingCopy" -> "Log" [] tab = "Bookmarks" -> "WorkingCopy"
               [] OTHER -> "Bookmarks")

TabKeys == {Char("1"), Char("2"), Char("3"), Key("Tab"), Key("BackTab")}

\* C28: a tab key of browse mode that asks for another tab makes it current,
\* remembers the old one, and runs refresh_bookmarks iff the new tab is Bookmarks,
\* refresh_log iff it is Log, and never refresh_status; a tab key that asks for
\* the current tab changes nothing.
C28_TabSwitchRefresh ==
    [][(ev'.key # None /\ ev'.key[1] \in TabKeys /\ app.popup_state.kind = "None")
       => LET new == Target(ev'.key[1], app.current_tab)
              before == [BeforePoll(ev'.dt) EXCEPT !.needs_redraw = TRUE]
          IN  IF new = app.current_tab
              THEN ev'.refresh = <<>> /\ app' = before
              ELSE /\ app'.current_tab = new
                   /\ app'.previous_tab = app.current_tab
                   /\ ev'.refresh = (CASE new = "Bookmarks" -> <<"refresh_bookmarks">>
                                       [] new = "Log" -> <<"refresh_log">>
                                       [] OTHER -> <<>>)
                   /\ app'.files = app.files
                   /\ app'.selected_file_index = app.selected_file_index
                   /\ new # "Bookmarks" => app'.bookmarks = app.bookmarks
                   /\ new # "Log" => app'.log_commits = app.log_commits]_vars

\* 2 pressed on the Bookmarks tab did nothing; the WorkingCopy tab was shown before
C28_Witness ==
    /\ ev.key = Some(Char("2"))
    /\ ev.refresh = <<>>
    /\ app.current_tab = "Bookmarks"
    /\ app.previous_tab = "WorkingCopy"
    /\ Len(app.bookmarks) = 3

\* C29: a describe or a commit that succeeds publishes an operation in whose
\* view the commit that was the working copy when the transaction started is
\* gone: it is not visible, it is not the working copy, and no visible commit
\* has it as a parent, because rebase_descendants ran after the rewrite (and,
\* in commit, after the new commit was made the working copy).  After commit the
\* working copy is the new empty commit, whose only parent is the rewritten one.
C29_NoStaleParent ==
    [][\A c \in {ev'.calls[i] : i \in DOMAIN ev'.calls} :
        (c.fn \in {"describe", "commit"} /\ c.ok)
        => LET view == opLog'[Len(opLog')].view
           IN  /\ c.wc # NoCommit
               /\ c.wc \notin view.visible
               /\ view.wc # c.wc
               /\ \A id \in view.visible : c.wc \notin store'[id].parents
               /\ c.fn = "commit"
                  => /\ store'[view.wc].tree = EmptyTree
                     /\ \E p \in view.visible :
                           /\ store'[view.wc].parents = {p}
                           /\ store'[p].desc = c.arg
                           /\ store'[p].change = store[c.wc].change]_vars

\* a describe succeeded on a working-copy commit that had a child: the child
\* is visible as a rewritten commit whose parent is the new working copy
C29_Witness ==
    /\ Len(ev.calls) = 1
    /\ ev.calls[1].fn = "describe"
    /\ ev.calls[1].ok
    /\ \E id \in opLog[Len(opLog)].view.visible :
          /\ store[id].parents = {opLog[Len(opLog)].view.wc}
          /\ \E old \in DOMAIN store :
                /\ old < id
                /\ store[old].change = store[id].change
                /\ store[old].parents = {ev.calls[1].wc}

\* the names of the calls made in an event, in order
Fns(calls) == [i \in DOMAIN calls |-> calls[i].fn]

\* C30: one iteration of the loop handles at most one key, and the calls that
\* change the repository are made one after the other inside the handler of
\* that key, each with its result known before the handler goes on: an
\* iteration without a key makes no call and leaves the repository alone; an
\* iteration with a key makes at most one call, or the checkout followed, once
\* it has succeeded, by the auto-track; and at most one operation is added.
C30_OneMutationAtATime ==
    [][/\ Len(ev'.key) <= 1
       /\ \A i \in DOMAIN ev'.calls :
             /\ ev'.calls[i].fn \in MutatingFns \cup {"bookmark track"}
             /\ ev'.calls[i].ok \in BOOLEAN
       /\ ev'.key = None => (ev'.calls = <<>> /\ UNCHANGED OnDisk)
       /\ \/ Len(ev'.calls) <= 1
          \/ /\ Fns(ev'.calls) = <<"edit", "bookmark track">>
             /\ ev'.calls[1].ok
       /\ Len(opLog') <= Len(opLog) + 1
       /\ ev'.calls = <<>> => UNCHANGED OnDisk]_vars

\* Enter on the Bookmarks tab made two calls in one event: the checkout, and
\* after it had succeeded the auto-track, which failed
C30_Witness ==
    /\ ev.key = EnterKey
    /\ Fns(ev.calls) = <<"edit", "bookmark track">>
    /\ ev.calls[1].ok
    /\ ~ev.calls[2].ok
    /\ running

\* the refresh named ran in the step being taken
Runs(name) == \E j \in DOMAIN ev'.refresh : ev'.refresh[j] = name

\* the diff that belongs to the selected file of a
DiffOf(a) ==
    IF a.selected_file_index < Len(a.files)
    THEN Some(a.files[a.selected_file_index + 1].path)
    ELSE None

\* C31: each refresh is all-or-nothing.  A refresh_status that succeeds leaves
\* the list its query returned, the selection clamped to it and the diff of
\* the selected file; one that fails leaves files, selection and diff as they
\* were.  refresh_bookmarks and refresh_log either replace their list and clamp
\* its selection or leave both as they were.
C31_RefreshAllOrNothing ==
    [][/\ Runs("refresh_status")
          => IF ev'.ret = "ok"
             THEN /\ app'.selected_file_index =
                         Min(app.selected_file_index, SaturatingSub(Len(app'.files), 1))
                  /\ app'.current_diff = DiffOf(app')
                  /\ app'.diff_scroll_offset = 0
             ELSE /\ app'.files = app.files
                  /\ app'.selected_file_index = app.selected_file_index
                  /\ app'.current_diff = app.current_diff
       /\ Runs("refresh_bookmarks")
          => \/ app'.selected_bookmark_index =
                    Min(app.selected_bookmark_index,
                        SaturatingSub(Len(app'.bookmarks), 1))
             \/ /\ app'.bookmarks = app.bookmarks
                /\ app'.selected_bookmark_index = app.selected_bookmark_index
       /\ Runs("refresh_log")
          => \/ app'.selected_log_index =
                    Min(app.selected_log_index, SaturatingSub(Len(app'.log_commits), 1))
             \/ /\ app'.log_commits = app.log_commits
                /\ app'.selected_log_index = app.selected_log_index]_vars

\* the keys that move the highlight of the bookmark popup
IsDownKey(key) == key.code = "Down" \/ IsChar(key, "j")
IsUpKey(key) == key.code = "Up" \/ IsChar(key, "k")

\* C32: in the bookmark popup Down or j moves the highlight h to
\* min(h + 1, length of the filtered view - 1) and Up or k to max(h - 1, 0), and
\* only when the filtered view is not empty; the keys make no call and leave the
\* filter text, the cursor and the candidates as they were, and the highlight
\* they leave is within the filtered view.
C32_HighlightMoves ==
    [][(/\ ev'.key # None
        /\ app.popup_state.kind = "BookmarkSelect"
        /\ (IsDownKey(ev'.key[1]) \/ IsUpKey(ev'.key[1])))
       => LET p == app.popup_state
              q == app'.popup_state
              f == Filtered(p.available_bookmarks, p.content)
              h == p.selected_index
          IN  /\ ev'.calls = <<>>
              /\ q.kind = "BookmarkSelect"
              /\ q.content = p.content
              /\ q.cursor_position = p.cursor_position
              /\ q.available_bookmarks = p.available_bookmarks
              /\ f = <<>> => q.selected_index = h
              /\ f # <<>>
                 => /\ q.selected_index = (IF IsDownKey(ev'.key[1])
                                           THEN Min(h + 1, Len(f) - 1)
                                           ELSE SaturatingSub(h, 1))
                    /\ q.selected_index \in 0 .. Len(f) - 1]_vars

\* C33: Enter on the Bookmarks tab with an empty cache of bookmarks makes no
\* call, runs no refresh and sets no status; and an event in which the checkout
\* succeeded and the auto-track after it failed has opened no popup, has set
\* the status message of the checkout and has run refresh_all.
C33_AutoTrackDiscarded ==
    [][/\ (/\ ev'.key = EnterKey
           /\ app.popup_state.kind \in {"None", "Warning"}
           /\ app.current_tab = "Bookmarks"
           /\ app.bookmarks = <<>>)
          => /\ ev'.calls = <<>>
             /\ ev'.refresh = <<>>
             /\ ~ev'.status
             /\ app' = [BeforePoll(ev'.dt) EXCEPT !.needs_redraw = TRUE]
       /\ (/\ Fns(ev'.calls) = <<"edit", "bookmark track">>
           /\ ev'.calls[1].ok
           /\ ~ev'.calls[2].ok)
          => /\ app'.popup_state = app.popup_state
             /\ ev'.status
             /\ app'.status_message
                    = Some(<<"Checked out bookmark: ">> \o ev'.calls[1].arg)
             /\ ev'.refresh[1] = "refresh_all"
             /\ ev'.ret = "ok" => running']_vars

\* the checkout of main succeeded, the auto-track failed, and the event ended
\* with no popup, the status message set and the lists refreshed
C33_Witness ==
    /\ ev.key = EnterKey
    /\ Fns(ev.calls) = <<"edit", "bookmark track">>
    /\ ev.calls[1].ok
    /\ ~ev.calls[2].ok
    /\ app.popup_state = PopupNone
    /\ app.status_message = Some(<<"Checked out bookmark: ">> \o main)
    /\ Ran("refresh_log")
    /\ running

\* C34: the spinner glyph depends on the time since loading started only: it
\* is the blank when no start is recorded, and otherwise the frame f of 0..9
\* whose 80 ms slot of the ten-frame cycle holds the elapsed time.
C34_SpinnerFrame ==
    IF app.loading_start = None
    THEN get_spinner_char(app) = None
    ELSE \E f \in 0 .. SpinnerFrames - 1 :
            /\ get_spinner_char(app) = Some(f)
            /\ f * SpinnerFrameMs <= app.loading_start[1] % SpinnerCycleMs
            /\ app.loading_start[1] % SpinnerCycleMs < (f + 1) * SpinnerFrameMs

\* 760 ms after a fetch that failed had recorded its start, the last frame of
\* the cycle is the glyph
C34_Witness ==
    /\ app.loading_start = Some(760)
    /\ app.popup_state.kind = "Error"
    /\ get_spinner_char(app) = Some(9)

\* C35: with the Help popup up, ?, q and Esc set the popup state to None and
\* every other key changes nothing; none of them makes a call, runs a refresh
\* or sets should_quit, and the loop goes on.  With no popup, q sets should_quit
\* and the loop ends: no key is handled once should_quit is set.
C35_HelpSwallowsQuit ==
    [][/\ running /\ ~app.should_quit
       /\ (ev'.key # None /\ app.popup_state.kind = "Help")
          => LET before == [BeforePoll(ev'.dt) EXCEPT !.needs_redraw = TRUE]
             IN  /\ ev'.calls = <<>>
                 /\ ev'.refresh = <<>>
                 /\ UNCHANGED OnDisk
                 /\ app' = IF Closes("Help", ev'.key[1]) /\ ev'.key[1].code # "Enter"
                           THEN [before EXCEPT !.popup_state = PopupNone]
                           ELSE before
                 /\ ~app'.should_quit
                 /\ running'
       /\ (ev'.key = Some(Char("q")) /\ app.popup_state.kind = "None")
          => /\ app'.should_quit
             /\ ~running'
             /\ ev'.calls = <<>>]_vars

\* q closed the Help popup and the program goes on
C35_Witness ==
    /\ ev.key = Some(Char("q"))
    /\ ev.popup.kind = "Help"
    /\ app.popup_state = PopupNone
    /\ ~app.should_quit
    /\ running

\* C36: in every reachable state each selection index is smaller than
\* max(1, length of the list it selects in).
C36_IndicesInRange ==
    /\ InRange(app.selected_file_index, Len(app.files))
    /\ InRange(app.selected_bookmark_index, Len(app.bookmarks))
    /\ InRange(app.selected_log_index, Len(app.log_commits))

\* k was handled while the file list and the bookmark list held two entries
\* each, with the selection of each on the last of them
C36_Witness ==
    /\ Len(app.bookmarks) = 2
    /\ app.selected_bookmark_index = 1
    /\ app.selected_file_index = 1
    /\ Len(app.files) = 2
    /\ ev.key = Some(Char("k"))

\* C37: in every state of the bookmark popup the cursor is at most the number
\* of characters of the filter text, and no key of the popup has acted off a
\* character boundary (which would have been a panic); Backspace and Left met
\* with the cursor at 0 leave the popup as it was.
C37_CursorWithinText ==
    /\ app.popup_state.kind = "BookmarkSelect"
       => app.popup_state.cursor_position \in 0 .. Len(app.popup_state.content)
    /\ (ev.key # None /\ ev.popup.kind = "BookmarkSelect") => ev.ret = "ok"
    /\ (/\ ev.key # None
        /\ ev.popup.kind = "BookmarkSelect"
        /\ ev.popup.cursor_position = 0
        /\ ev.key[1].code \in {"Backspace", "Left"})
       => app.popup_state = ev.popup

\* Backspace removed the two-byte character between two one-byte ones
C37_Witness ==
    /\ ev.key = Some(Key("Backspace"))
    /\ ev.popup.kind = "BookmarkSelect"
    /\ ev.popup.content = <<"m", "é", "m">>
    /\ ev.popup.cursor_position = 2
    /\ app.popup_state.content = <<"m", "m">>
    /\ app.popup_state.cursor_position = 1

\* C38: in every reachable state the loading message is present exactly when
\* the loading start is.
C38_LoadingPaired ==
    (app.loading_message # None) <=> (app.loading_start # None)

\* the status query of env fails, or the diff query it makes for the selected
\* file does
StatusFails(env) ==
    \/ env.status = None
    \/ env.status[1] # <<>> /\ ~env.diff

\* C39: a refresh_all whose status query or diff query fails returns the error
\* without running refresh_bookmarks or refresh_log; the key event in which that
\* happened returns the error, leaves the cached bookmarks and log as they
\* were, and ends the loop, which handles no key after it.
C39_RefreshFailureEndsLoop ==
    [][/\ running
       /\ \A env \in World.refresh :
             StatusFails(env)
             => LET c == refresh_all(Context(app, None, World), env)
                IN  /\ c.ret = "err"
                    /\ c.refresh = <<"refresh_all", "refresh_status">>
                    /\ c.app.bookmarks = app.bookmarks
                    /\ c.app.log_commits = app.log_commits
       /\ Runs("refresh_all")
          => IF ev'.ret = "ok"
             THEN Runs("refresh_bookmarks") /\ Runs("refresh_log") /\ running'
             ELSE /\ ev'.refresh = <<"refresh_all", "refresh_status">>
                  /\ app'.bookmarks = app.bookmarks
                  /\ app'.log_commits = app.log_commits
                  /\ ~running']_vars

\* a new commit was made, the refresh after it failed, and the loop has ended
C39_Witness ==
    /\ ev.key = Some(Char("n"))
    /\ Len(ev.calls) = 1
    /\ ev.calls[1].ok
    /\ ev.refresh = <<"refresh_all", "refresh_status">>
    /\ ev.ret = "err"
    /\ ~running

\* C40: with no popup, d opens the Describe popup, c the Commit popup and n
\* asks for a new commit on the WorkingCopy tab; on the Bookmarks and Log tabs
\* the three keys make no call, run no refresh, set no status and leave the App
\* (popup state, tab, cached lists, selection indices) as it was.
C40_WorkingCopyKeysOnly ==
    [][(/\ ev'.key # None
        /\ app.popup_state.kind = "None"
        /\ \E c \in {"d", "c", "n"} : ev'.key = Some(Char(c)))
       => IF app.current_tab = "WorkingCopy"
          THEN CASE ev'.key = Some(Char("d")) ->
                        /\ app'.popup_state.kind = "Input"
                        /\ app'.popup_state.callback = "Describe"
                        /\ ev'.calls = <<>>
                 [] ev'.key = Some(Char("c")) ->
                        /\ app'.popup_state.kind = "Input"
                        /\ app'.popup_state.callback = "Commit"
                        /\ ev'.calls = <<>>
                 [] OTHER ->
                        \/ Fns(ev'.calls) = <<"new">>
                        \/ ev'.calls = <<>> /\ app'.popup_state.kind \in {"Warning", "Error"}
          ELSE /\ ev'.calls = <<>>
               /\ ev'.refresh = <<>>
               /\ ~ev'.status
               /\ UNCHANGED OnDisk
               /\ app' = [BeforePoll(ev'.dt) EXCEPT !.needs_redraw = TRUE]]_vars

\* n was pressed on the Log tab with two commits listed, and nothing happened
C40_Witness ==
    /\ ev.key = Some(Char("n"))
    /\ ev.popup.kind = "None"
    /\ ev.calls = <<>>
    /\ app.current_tab = "Log"
    /\ Len(app.log_commits) = 2
    /\ app.popup_state = PopupNone

====
